---------------------------- MODULE Spec2Model ----------------------------
(***************************************************************************)
(* A model of the data plane filter engine (dataplane/data_plane_table.py) *)
(* and of the type conversions it rests on.                                *)
(*                                                                         *)
(* Python values are records tagged by their Python type in field t:       *)
(*   None      [t |-> "none"]                                              *)
(*   bool      [t |-> "bool",  v |-> TRUE/FALSE]                           *)
(*   int       [t |-> "int",   v |-> n]                                    *)
(*   float     [t |-> "float", v |-> n]   (integer valued), NaN [t|->"nan"]*)
(*   str       [t |-> "str",   v |-> <<"f","o","o">>]  (its characters)    *)
(*   date      [t |-> "date", y, m, d]                                     *)
(*   datetime  [t |-> "datetime", y, m, d, hh, mm, ss]                     *)
(*   time      [t |-> "time", hh, mm, ss]                                  *)
(* A dictionary (a filter spec, a schema entry) is a record keyed by its   *)
(* keys; a list is a sequence; a set of row indices is a set of naturals.  *)
(* A raised exception is the record [raised |-> <exception class>].        *)
(***************************************************************************)
EXTENDS Integers, Sequences, FiniteSets, TLC

-----------------------------------------------------------------------------
(* Python values *)

PyNone == [t |-> "none"]
PyBool(b) == [t |-> "bool", v |-> b]
PyInt(n) == [t |-> "int", v |-> n]
PyFloat(n) == [t |-> "float", v |-> n]
NaN == [t |-> "nan"]
PyStr(s) == [t |-> "str", v |-> s]
PyDate(y, m, d) == [t |-> "date", y |-> y, m |-> m, d |-> d]
PyDateTime(y, m, d, hh, mm, ss) ==
    [t |-> "datetime", y |-> y, m |-> m, d |-> d, hh |-> hh, mm |-> mm, ss |-> ss]
PyTime(hh, mm, ss) == [t |-> "time", hh |-> hh, mm |-> mm, ss |-> ss]

PyList(s) == [t |-> "list", v |-> s]

Raise(exc) == [raised |-> exc]
IsRaise(x) == "raised" \in DOMAIN x

(* isinstance(value, str), isinstance(value, bool), ... ; bool is a subclass *)
(* of int in Python, NaN is a float.                                        *)
(* type(x): a dictionary is a record of its keys, which has no field t *)
TypeOf(x) == IF "t" \in DOMAIN x THEN x.t ELSE "dict"
IsDict(x) == TypeOf(x) = "dict"
IsList(x) == TypeOf(x) = "list"
IsStr(x) == TypeOf(x) = "str"
IsBool(x) == TypeOf(x) = "bool"
IsInt(x) == TypeOf(x) \in {"int", "bool"}
IsFloat(x) == TypeOf(x) \in {"float", "nan"}
IsNumeric(x) == IsInt(x) \/ IsFloat(x)

(* The numeric value of a bool, int or (non NaN) float. *)
NumVal(x) == IF x.t = "bool" THEN (IF x.v THEN 1 ELSE 0) ELSE x.v

-----------------------------------------------------------------------------
(* Characters and strings.  Chars lists the characters of the model in     *)
(* code point order, which is the order Python compares strings by.        *)

Chars == << " ", "$", "'", "(", "*", ",", "-", ".", "0", "1", "2", "3", "4", "5", "6", "7",
            "8", "9", ":", "F", "N", "T", "[", "]", "^", "a", "b", "e", "f", "l",
            "n", "o", "r", "s", "t", "u" >>

Ord(c) == CHOOSE i \in 1..Len(Chars) : Chars[i] = c

Digits == <<"0", "1", "2", "3", "4", "5", "6", "7", "8", "9">>
IsDigit(c) == \E i \in 1..Len(Digits) : Digits[i] = c
DigitVal(c) == (CHOOSE i \in 1..Len(Digits) : Digits[i] = c) - 1

(* s < t for Python strings: lexicographic by code point *)
StrLt(s, u) ==
    \E k \in 1..(Len(u)) :
        /\ \A j \in 1..(k - 1) : j <= Len(s) /\ s[j] = u[j]
        /\ \/ k = Len(s) + 1
           \/ k <= Len(s) /\ Ord(s[k]) < Ord(u[k])


(* Lexicographic order of two tuples of integers of the same length, the    *)
(* order of datetime.date, datetime.datetime and datetime.time.            *)
TupleLt(a, b) ==
    \E k \in 1..Len(a) :
        /\ \A j \in 1..(k - 1) : a[j] = b[j]
        /\ a[k] < b[k]

TimeKey(x) ==
    IF x.t = "date" THEN <<x.y, x.m, x.d>>
    ELSE IF x.t = "time" THEN <<x.hh, x.mm, x.ss>>
    ELSE <<x.y, x.m, x.d, x.hh, x.mm, x.ss>>

-----------------------------------------------------------------------------
(* Python comparison.  a < b, a <= b, ... raise TypeError unless both are   *)
(* numbers (bool, int, float), both strings, both of the same date/time     *)
(* class, or both lists whose first unequal elements can be compared; every *)
(* comparison with NaN is False.                                            *)

(* a == b for two values that are not lists: numbers compare by value       *)
(* across bool, int and float (NaN equals nothing); values of different     *)
(* classes are unequal.                                                     *)
PyEq(a, b) ==
    IF IsNumeric(a) /\ IsNumeric(b)
    THEN a.t # "nan" /\ b.t # "nan" /\ NumVal(a) = NumVal(b)
    ELSE a.t = b.t /\ a = b

(* Variant: only two values of the same class can be compared *)
Orderable_same_class(a, b) ==
    TypeOf(a) = TypeOf(b) /\ TypeOf(a) \in {"bool", "int", "float", "str", "list"}

RECURSIVE Orderable(_, _)
Orderable(a, b) ==
    \/ IsNumeric(a) /\ IsNumeric(b)
    \/ TypeOf(a) = TypeOf(b) /\ TypeOf(a) \in {"str", "date", "datetime", "time"}
    \/ /\ IsList(a) /\ IsList(b)
       /\ LET unequal == {i \in 1..Len(a.v) : i <= Len(b.v) /\ ~PyEq(a.v[i], b.v[i])}
              first == CHOOSE i \in unequal : \A j \in unequal : i <= j
          IN  unequal = {} \/ Orderable(a.v[first], b.v[first])

PyLt(a, b) ==
    IF IsNumeric(a) /\ IsNumeric(b)
    THEN a.t # "nan" /\ b.t # "nan" /\ NumVal(a) < NumVal(b)
    ELSE IF a.t = "str" THEN StrLt(a.v, b.v)
    ELSE TupleLt(TimeKey(a), TimeKey(b))

PyLe(a, b) == PyLt(a, b) \/ PyEq(a, b)
PyGt(a, b) == PyLt(b, a)
PyGe(a, b) == PyLe(b, a)

-----------------------------------------------------------------------------
(* str(), float(), int(s, base), isoformat() and fromisoformat()            *)

RECURSIVE NatToStr(_)
NatToStr(n) ==
    IF n < 10 THEN <<Digits[n + 1]>>
    ELSE Append(NatToStr(n \div 10), Digits[(n % 10) + 1])

IntToStr(n) == IF n < 0 THEN <<"-">> \o NatToStr(0 - n) ELSE NatToStr(n)

(* n in decimal, zero padded on the left to at least width characters *)
RECURSIVE Pad(_, _)
Pad(n, width) ==
    LET s == NatToStr(n)
    IN  IF Len(s) >= width THEN s ELSE <<"0">> \o Pad(n, width - 1)

DateIso(x) == Pad(x.y, 4) \o <<"-">> \o Pad(x.m, 2) \o <<"-">> \o Pad(x.d, 2)
TimeIso(x) == Pad(x.hh, 2) \o <<":">> \o Pad(x.mm, 2) \o <<":">> \o Pad(x.ss, 2)

(* value.isoformat() of a date, a datetime (no microseconds, no time zone)  *)
(* or a time; any other value has no isoformat attribute.                   *)
isoformat(x) ==
    IF x.t = "date" THEN PyStr(DateIso(x))
    ELSE IF x.t = "datetime" THEN PyStr(DateIso(x) \o <<"T">> \o TimeIso(x))
    ELSE IF x.t = "time" THEN PyStr(TimeIso(x))
    ELSE Raise("AttributeError")

(* The elements of a list as str(list) writes them: the repr of each, a    *)
(* string in single quotes (the strings of the model need no escape)       *)
RECURSIVE JoinReprs(_)
JoinReprs(elems) ==
    IF elems = <<>> THEN <<>>
    ELSE LET head == IF elems[1].t = "bool"
                     THEN (IF elems[1].v THEN <<"T", "r", "u", "e">>
                                         ELSE <<"F", "a", "l", "s", "e">>)
                     ELSE IF elems[1].t = "str"
                     THEN <<"'">> \o elems[1].v \o <<"'">>
                     ELSE IntToStr(elems[1].v)
         IN  IF Len(elems) = 1 THEN head
             ELSE head \o <<",", " ">> \o JoinReprs(Tail(elems))

(* str(value); the lists of the model hold ints, bools and strings *)
str(x) ==
    IF x.t = "str" THEN x
    ELSE IF x.t = "none" THEN PyStr(<<"N", "o", "n", "e">>)
    ELSE IF x.t = "bool"
         THEN (IF x.v THEN PyStr(<<"T", "r", "u", "e">>)
                      ELSE PyStr(<<"F", "a", "l", "s", "e">>))
    ELSE IF x.t = "int" THEN PyStr(IntToStr(x.v))
    ELSE IF x.t = "float" THEN PyStr(IntToStr(x.v) \o <<".", "0">>)
    ELSE IF x.t = "nan" THEN PyStr(<<"n", "a", "n">>)
    ELSE IF x.t = "date" THEN PyStr(DateIso(x))
    ELSE IF x.t = "datetime" THEN PyStr(DateIso(x) \o <<" ">> \o TimeIso(x))
    ELSE IF x.t = "list" THEN PyStr(<<"[">> \o JoinReprs(x.v) \o <<"]">>)
    ELSE PyStr(TimeIso(x))

AllDigits(s) == \A i \in 1..Len(s) : IsDigit(s[i])

RECURSIVE DecVal(_)
DecVal(s) == IF s = <<>> THEN 0
             ELSE 10 * DecVal(SubSeq(s, 1, Len(s) - 1)) + DigitVal(s[Len(s)])

Lower(c) == IF c = "N" THEN "n" ELSE IF c = "T" THEN "t"
            ELSE IF c = "F" THEN "f" ELSE c

(* float(s) of a string: an optional sign, then "nan" in any case, or       *)
(* digits with an optional fraction of zeros (the values of the model are   *)
(* integers).  Any other string of the model raises ValueError.             *)
ParseFloat(s) ==
    LET neg  == Len(s) > 0 /\ s[1] = "-"
        body == IF neg THEN SubSeq(s, 2, Len(s)) ELSE s
        dot  == {i \in 1..Len(body) : body[i] = "."}
        ipart == IF dot = {} THEN body
                 ELSE SubSeq(body, 1, (CHOOSE i \in dot : TRUE) - 1)
        fpart == IF dot = {} THEN <<>>
                 ELSE SubSeq(body, (CHOOSE i \in dot : TRUE) + 1, Len(body))
    IN  IF [i \in 1..Len(body) |-> Lower(body[i])] = <<"n", "a", "n">> THEN NaN
        ELSE IF /\ Cardinality(dot) <= 1
                /\ Len(ipart) + Len(fpart) > 0
                /\ AllDigits(ipart)
                /\ \A i \in 1..Len(fpart) : fpart[i] = "0"
        THEN PyFloat(IF neg THEN 0 - DecVal(ipart) ELSE DecVal(ipart))
        ELSE Raise("ValueError")

HexDigits == <<"0", "1", "2", "3", "4", "5", "6", "7", "8", "9",
               "a", "b", "c", "d", "e", "f">>
BaseDigit(c, base) == \E i \in 1..base : HexDigits[i] = Lower(c)
BaseDigitVal(c) == (CHOOSE i \in 1..Len(HexDigits) : HexDigits[i] = Lower(c)) - 1

RECURSIVE BaseVal(_, _)
BaseVal(s, base) ==
    IF s = <<>> THEN 0
    ELSE base * BaseVal(SubSeq(s, 1, Len(s) - 1), base) + BaseDigitVal(s[Len(s)])

(* int(s, base) for base 2, 8 or 16: an optional sign, an optional prefix   *)
(* 0b, 0o or 0x that matches the base, then digits of the base.             *)
ParseInt(s, base) ==
    LET neg  == Len(s) > 0 /\ s[1] = "-"
        body == IF neg THEN SubSeq(s, 2, Len(s)) ELSE s
        mark == IF base = 2 THEN "b" ELSE IF base = 8 THEN "o" ELSE "x"
        pre  == Len(body) >= 2 /\ body[1] = "0" /\ body[2] = mark
        digs == IF pre THEN SubSeq(body, 3, Len(body)) ELSE body
    IN  IF Len(digs) > 0 /\ \A i \in 1..Len(digs) : BaseDigit(digs[i], base)
        THEN PyInt(IF neg THEN 0 - BaseVal(digs, base) ELSE BaseVal(digs, base))
        ELSE Raise("ValueError")

IsLeap(y) == (y % 4 = 0 /\ y % 100 # 0) \/ y % 400 = 0
DaysInMonth(y, m) ==
    IF m = 2 THEN (IF IsLeap(y) THEN 29 ELSE 28)
    ELSE IF m \in {4, 6, 9, 11} THEN 30 ELSE 31

(* datetime.date.fromisoformat(s): YYYY-MM-DD *)
DateFromIso(s) ==
    IF /\ Len(s) = 10
       /\ s[5] = "-" /\ s[8] = "-"
       /\ \A i \in {1, 2, 3, 4, 6, 7, 9, 10} : IsDigit(s[i])
    THEN LET y == DecVal(SubSeq(s, 1, 4))
             m == DecVal(SubSeq(s, 6, 7))
             d == DecVal(SubSeq(s, 9, 10))
         IN  IF y >= 1 /\ m \in 1..12 /\ d >= 1 /\ d <= DaysInMonth(y, m)
             THEN PyDate(y, m, d)
             ELSE Raise("ValueError")
    ELSE Raise("ValueError")

(* datetime.time.fromisoformat(s): HH, HH:MM or HH:MM:SS *)
TimeFromIso(s) ==
    IF /\ Len(s) \in {2, 5, 8}
       /\ \A i \in 1..Len(s) : IF i \in {3, 6} THEN s[i] = ":" ELSE IsDigit(s[i])
    THEN LET hh == DecVal(SubSeq(s, 1, 2))
             mm == IF Len(s) >= 5 THEN DecVal(SubSeq(s, 4, 5)) ELSE 0
             ss == IF Len(s) >= 8 THEN DecVal(SubSeq(s, 7, 8)) ELSE 0
         IN  IF hh < 24 /\ mm < 60 /\ ss < 60
             THEN PyTime(hh, mm, ss)
             ELSE Raise("ValueError")
    ELSE Raise("ValueError")

(* datetime.datetime.fromisoformat(s): a date, then optionally one          *)
(* separator character and a time                                           *)
DateTimeFromIso(s) ==
    LET d  == DateFromIso(SubSeq(s, 1, 10))
        tm == IF Len(s) > 11 THEN TimeFromIso(SubSeq(s, 12, Len(s)))
              ELSE IF Len(s) = 10 THEN PyTime(0, 0, 0)
              ELSE Raise("ValueError")
    IN  IF Len(s) < 10 \/ IsRaise(d) \/ IsRaise(tm) THEN Raise("ValueError")
        ELSE PyDateTime(d.y, d.m, d.d, tm.hh, tm.mm, tm.ss)


-----------------------------------------------------------------------------
(* The schema types, dataplane/data_plane_utils.py *)

DATA_PLANE_STRING == PyStr(<<"s", "t", "r", "i", "n", "g">>)
DATA_PLANE_NUMBER == PyStr(<<"n", "u", "m", "b", "e", "r">>)
DATA_PLANE_BOOLEAN == PyStr(<<"b", "o", "o", "l", "e", "a", "n">>)
DATA_PLANE_DATE == PyStr(<<"d", "a", "t", "e">>)
DATA_PLANE_DATETIME == PyStr(<<"d", "a", "t", "e", "t", "i", "m", "e">>)
DATA_PLANE_TIME_OF_DAY == PyStr(<<"t", "i", "m", "e", "o", "f", "d", "a", "y">>)

InvalidDataException == Raise("InvalidDataException")

(* InvalidDataException(message), for the messages that tell which check    *)
(* of check_valid_spec failed                                               *)
InvalidData(message) == [raised |-> "InvalidDataException", message |-> message]

-----------------------------------------------------------------------------
(* _convert_to_type(data_plane_type, value): the value, converted, or the   *)
(* exception raised.  The date and datetime branches end without a return   *)
(* for a value that is neither of the class nor a string: the call then     *)
(* returns None.                                                            *)

TrueStrings == { PyStr(<<"T", "r", "u", "e">>), PyStr(<<"t", "r", "u", "e">>),
                 PyStr(<<"t">>), PyStr(<<"1">>) }

ConvertToNumber(value) ==
    IF IsInt(value) \/ IsFloat(value) THEN value
    ELSE IF ~IsStr(value) THEN Raise("TypeError")      \* float(value)
    ELSE IF ~IsRaise(ParseFloat(value.v)) THEN ParseFloat(value.v)
    ELSE IF ~IsRaise(ParseInt(value.v, 2)) THEN ParseInt(value.v, 2)
    ELSE IF ~IsRaise(ParseInt(value.v, 8)) THEN ParseInt(value.v, 8)
    ELSE IF ~IsRaise(ParseInt(value.v, 16)) THEN ParseInt(value.v, 16)
    ELSE InvalidDataException

ConvertToBoolean(value) ==
    IF IsBool(value) THEN value
    ELSE IF IsStr(value) THEN PyBool(value \in TrueStrings)
    ELSE IF IsInt(value) THEN PyBool(value.v = 1)
    ELSE PyBool(FALSE)

ConvertToDateTime(value) ==
    IF TypeOf(value) = "datetime" THEN value
    ELSE IF IsStr(value)
         THEN (IF IsRaise(DateTimeFromIso(value.v)) THEN InvalidDataException
               ELSE DateTimeFromIso(value.v))
    ELSE PyNone

ConvertToDate(value) ==
    IF TypeOf(value) = "date" THEN value
    ELSE IF IsStr(value)
         THEN (IF IsRaise(DateFromIso(value.v)) THEN InvalidDataException
               ELSE DateFromIso(value.v))
    ELSE PyNone

ConvertToTime(value) ==
    IF TypeOf(value) = "time" THEN value
    ELSE IF IsStr(value)
         THEN (IF IsRaise(TimeFromIso(value.v)) THEN InvalidDataException
               ELSE TimeFromIso(value.v))
    ELSE InvalidDataException

_convert_to_type(data_plane_type, value) ==
    IF data_plane_type = DATA_PLANE_STRING THEN str(value)
    ELSE IF data_plane_type = DATA_PLANE_NUMBER THEN ConvertToNumber(value)
    ELSE IF data_plane_type = DATA_PLANE_BOOLEAN THEN ConvertToBoolean(value)
    ELSE IF data_plane_type = DATA_PLANE_DATETIME THEN ConvertToDateTime(value)
    ELSE IF data_plane_type = DATA_PLANE_DATE THEN ConvertToDate(value)
    ELSE ConvertToTime(value)

(* convert_to_type(data_plane_type, value) of dataplane/data_plane_utils.py: *)
(* the value, converted, or the exception raised.                           *)

(* type(value) in DATA_PLANE_PYTHON_TYPES[data_plane_type]: the class of    *)
(* the value itself, so that a bool is no number                            *)
DATA_PLANE_PYTHON_TYPES(data_plane_type) ==
    IF data_plane_type = DATA_PLANE_STRING THEN {"str"}
    ELSE IF data_plane_type = DATA_PLANE_NUMBER THEN {"int", "float", "nan"}
    ELSE IF data_plane_type = DATA_PLANE_BOOLEAN THEN {"bool"}
    ELSE IF data_plane_type = DATA_PLANE_DATE THEN {"date"}
    ELSE IF data_plane_type = DATA_PLANE_DATETIME THEN {"datetime"}
    ELSE {"time"}

UtilsTrueStrings == TrueStrings \cup { PyStr(<<"1", ".", "0">>) }

UtilsConvertToNumber(value) ==
    IF IsInt(value) \/ IsFloat(value) THEN value
    ELSE IF ~IsStr(value) THEN InvalidDataException   \* float(value): TypeError
    ELSE IF ~IsRaise(ParseFloat(value.v)) THEN ParseFloat(value.v)
    ELSE IF ~IsRaise(ParseInt(value.v, 2)) THEN ParseInt(value.v, 2)
    ELSE IF ~IsRaise(ParseInt(value.v, 8)) THEN ParseInt(value.v, 8)
    ELSE IF ~IsRaise(ParseInt(value.v, 16)) THEN ParseInt(value.v, 16)
    ELSE InvalidDataException

(* value != 0 of an int, value != 0.0 of a float: true of a NaN *)
UtilsConvertToBoolean(value) ==
    IF IsBool(value) THEN value
    ELSE IF IsStr(value) THEN PyBool(value \in UtilsTrueStrings)
    ELSE IF IsInt(value) THEN PyBool(value.v # 0)
    ELSE IF IsFloat(value) THEN PyBool(value = NaN \/ value.v # 0)
    ELSE PyBool(FALSE)

UtilsConvertToDateTime(value) ==
    IF TypeOf(value) = "date"
    THEN PyDateTime(value.y, value.m, value.d, 0, 0, 0)
    ELSE IF IsStr(value)
         THEN (IF IsRaise(DateTimeFromIso(value.v)) THEN InvalidDataException
               ELSE DateTimeFromIso(value.v))
    ELSE InvalidDataException

(* datetime.date(): the date of a datetime *)
DateOf(x) == PyDate(x.y, x.m, x.d)

(* datetime.time(): the time of a datetime *)
TimeOf(x) == PyTime(x.hh, x.mm, x.ss)

(* Variant: a string is parsed as a date, not as a datetime *)
UtilsConvertToDate_strict(value) ==
    IF TypeOf(value) = "datetime" THEN DateOf(value)
    ELSE IF IsStr(value)
         THEN (IF IsRaise(DateFromIso(value.v)) THEN InvalidDataException
               ELSE DateFromIso(value.v))
    ELSE InvalidDataException

UtilsConvertToDate(value) ==
    IF TypeOf(value) = "datetime" THEN DateOf(value)
    ELSE IF IsStr(value)
         THEN (IF IsRaise(DateTimeFromIso(value.v)) THEN InvalidDataException
               ELSE DateOf(DateTimeFromIso(value.v)))
    ELSE InvalidDataException

UtilsConvertToTime(value) ==
    IF TypeOf(value) = "datetime" THEN TimeOf(value)
    ELSE IF IsStr(value)
         THEN (IF ~IsRaise(TimeFromIso(value.v)) THEN TimeFromIso(value.v)
               ELSE IF ~IsRaise(DateTimeFromIso(value.v))
                    THEN TimeOf(DateTimeFromIso(value.v))
               ELSE InvalidDataException)
    ELSE InvalidDataException

convert_to_type(data_plane_type, value) ==
    IF TypeOf(value) \in DATA_PLANE_PYTHON_TYPES(data_plane_type) THEN value
    ELSE IF data_plane_type = DATA_PLANE_STRING THEN str(value)
    ELSE IF data_plane_type = DATA_PLANE_NUMBER THEN UtilsConvertToNumber(value)
    ELSE IF data_plane_type = DATA_PLANE_BOOLEAN THEN UtilsConvertToBoolean(value)
    ELSE IF data_plane_type = DATA_PLANE_DATETIME THEN UtilsConvertToDateTime(value)
    ELSE IF data_plane_type = DATA_PLANE_DATE THEN UtilsConvertToDate(value)
    ELSE UtilsConvertToTime(value)

(* The first exception raised by the elements of a list comprehension, or   *)
(* the list of its results.                                                 *)
ListOrRaise(elems) ==
    IF \E i \in 1..Len(elems) : IsRaise(elems[i])
    THEN elems[CHOOSE i \in 1..Len(elems) :
                  IsRaise(elems[i]) /\ \A j \in 1..(i - 1) : ~IsRaise(elems[j])]
    ELSE PyList(elems)

(* Variant: the list is kept as given *)
_convert_list_to_type_as_given(data_plane_type, value_list) == value_list

_convert_list_to_type(data_plane_type, value_list) ==
    ListOrRaise([i \in 1..Len(value_list.v) |->
                    _convert_to_type(data_plane_type, value_list.v[i])])

(* Variant: every value is turned into a string *)
_convert_to_output_string_all(data_plane_type, value) ==
    IF data_plane_type \in {DATA_PLANE_BOOLEAN, DATA_PLANE_NUMBER, DATA_PLANE_STRING}
    THEN str(value)
    ELSE isoformat(value)

_convert_to_output_string(data_plane_type, value) ==
    IF data_plane_type \in {DATA_PLANE_BOOLEAN, DATA_PLANE_NUMBER, DATA_PLANE_STRING}
    THEN value
    ELSE isoformat(value)

_convert_list_to_string(data_plane_type, value_list) ==
    ListOrRaise([i \in 1..Len(value_list.v) |->
                    _convert_to_output_string(data_plane_type, value_list.v[i])])


-----------------------------------------------------------------------------
(* Regular expressions (module re), for the patterns of the model: literal  *)
(* characters, ".", a postfix "*", the anchors "^" and "$", and "(", which  *)
(* the alphabet cannot close.  A compiled pattern is the sequence of its    *)
(* items [kind, c, star], held by a Pattern object.                         *)

ReWellFormed(s) ==
    /\ \A i \in 1..Len(s) : s[i] # "("                   \* unterminated group
    /\ \A i \in 1..Len(s) :
          s[i] = "*" => i > 1 /\ s[i - 1] \notin {"*", "^", "$"}  \* nothing to repeat

ReItem(s, i) ==
    [kind |-> IF s[i] = "." THEN "any"
              ELSE IF s[i] = "^" THEN "bol"
              ELSE IF s[i] = "$" THEN "eol" ELSE "lit",
     c    |-> s[i],
     star |-> i < Len(s) /\ s[i + 1] = "*"]

RECURSIVE ReItems(_, _)
ReItems(s, i) ==
    IF i > Len(s) THEN <<>>
    ELSE IF s[i] = "*" THEN ReItems(s, i + 1)
    ELSE <<ReItem(s, i)>> \o ReItems(s, i + 1)

(* re.compile(expression) *)
re_compile(expression) ==
    IF ~IsStr(expression) THEN Raise("TypeError")
    ELSE IF ~ReWellFormed(expression.v) THEN Raise("re.error")
    ELSE [t |-> "re.Pattern", pattern |-> expression.v,
          items |-> ReItems(expression.v, 1)]

ReFits(item, c) == item.kind = "any" \/ item.c = c

(* The positions at which a match of items k.. that starts at pos can end *)
RECURSIVE ReEnds(_, _, _, _)
ReEnds(items, k, s, pos) ==
    IF k > Len(items) THEN {pos}
    ELSE IF items[k].kind = "bol"
         THEN (IF pos = 0 THEN ReEnds(items, k + 1, s, pos) ELSE {})
    ELSE IF items[k].kind = "eol"
         THEN (IF pos = Len(s) THEN ReEnds(items, k + 1, s, pos) ELSE {})
    ELSE IF ~items[k].star
         THEN (IF pos < Len(s) /\ ReFits(items[k], s[pos + 1])
               THEN ReEnds(items, k + 1, s, pos + 1) ELSE {})
    ELSE ReEnds(items, k + 1, s, pos)
         \cup (IF pos < Len(s) /\ ReFits(items[k], s[pos + 1])
               THEN ReEnds(items, k, s, pos + 1) ELSE {})

(* regex.match(string) is not None: some match starts at position 0 *)
re_match(regex, string) == ReEnds(regex.items, 1, string.v, 0) # {}

(* regex.fullmatch(string) is not None: a match from 0 ends at the end *)
re_fullmatch(regex, string) ==
    Len(string.v) \in ReEnds(regex.items, 1, string.v, 0)

-----------------------------------------------------------------------------
(* Filter specs *)

OpALL == PyStr(<<"A", "L", "L">>)
OpANY == PyStr(<<"A", "N", "Y">>)
OpNONE == PyStr(<<"N", "O", "N", "E">>)
OpIN_LIST == PyStr(<<"I", "N", "_", "L", "I", "S", "T">>)
OpIN_RANGE == PyStr(<<"I", "N", "_", "R", "A", "N", "G", "E">>)
OpREGEX_MATCH == PyStr(<<"R", "E", "G", "E", "X", "_", "M", "A", "T", "C", "H">>)

CompoundOperators == {OpALL, OpANY, OpNONE}

DATA_PLANE_FILTER_FIELDS(operator) ==
    IF operator \in CompoundOperators THEN {"arguments"}
    ELSE IF operator = OpIN_LIST THEN {"column", "values"}
    ELSE IF operator = OpIN_RANGE THEN {"column", "max_val", "min_val"}
    ELSE {"column", "expression"}

(* Variant: NONE is left out of the list *)
valid_operators_without_none == {OpALL, OpANY, OpIN_LIST, OpIN_RANGE, OpREGEX_MATCH}

valid_operators == {OpALL, OpANY, OpNONE, OpIN_LIST, OpIN_RANGE, OpREGEX_MATCH}

(* The first exception among the results of a loop over a list, or None *)
FirstRaise(results) ==
    IF \E i \in 1..Len(results) : IsRaise(results[i])
    THEN results[CHOOSE i \in 1..Len(results) :
                    IsRaise(results[i]) /\ \A j \in 1..(i - 1) : ~IsRaise(results[j])]
    ELSE PyNone

(* check_valid_spec(filter_spec): None, or the exception raised *)
RECURSIVE check_valid_spec(_)
check_valid_spec(filter_spec) ==
    IF ~IsDict(filter_spec) THEN InvalidData("filter_spec must be a dictionary")
    ELSE IF "operator" \notin DOMAIN filter_spec THEN InvalidData("There is no operator")
    ELSE IF ~IsStr(filter_spec.operator) THEN InvalidData("operator is not a string")
    ELSE IF filter_spec.operator \notin valid_operators
         THEN InvalidData("is not a valid operator")
    ELSE IF DATA_PLANE_FILTER_FIELDS(filter_spec.operator) \ DOMAIN filter_spec # {}
         THEN InvalidData("is missing required fields")
    ELSE IF filter_spec.operator \in CompoundOperators
         THEN (IF ~IsList(filter_spec.arguments)
               THEN InvalidData("The arguments field must be a list")
               ELSE FirstRaise([i \in 1..Len(filter_spec.arguments.v) |->
                                   check_valid_spec(filter_spec.arguments.v[i])]))
    ELSE IF filter_spec.operator = OpIN_LIST
         THEN (IF ~IsList(filter_spec.values)
               THEN InvalidData("The Values argument to IN_LIST must be a list")
               ELSE PyNone)
    ELSE IF filter_spec.operator = OpREGEX_MATCH
         THEN (IF re_compile(filter_spec.expression) = Raise("TypeError")
               THEN InvalidData("is not a valid regular expression")
               ELSE IF IsRaise(re_compile(filter_spec.expression))
                    THEN re_compile(filter_spec.expression)
               ELSE PyNone)
    ELSE \* IN_RANGE: max_val > min_val must not raise TypeError
         (IF ~Orderable(filter_spec.max_val, filter_spec.min_val)
          THEN InvalidData("max_val and min_val must be comparable")
          ELSE PyNone)

_valid_column_spec(column) ==
    IsDict(column) /\ "name" \in DOMAIN column /\ "type" \in DOMAIN column


-----------------------------------------------------------------------------
(* class DataPlaneFilter.  A filter object is the record of its attributes: *)
(* operator and arguments (a sequence of filters), or operator,             *)
(* column_index, column_name, column_type and value_list, or max_val and    *)
(* min_val, or regex and expression.                                        *)

(* column_names.index(name): the first index (from 0) of an equal name, or  *)
(* ValueError                                                               *)
ListIndex(names, name) ==
    IF \E i \in 1..Len(names) : PyEq(names[i], name)
    THEN (CHOOSE i \in 1..Len(names) :
             PyEq(names[i], name) /\ \A j \in 1..(i - 1) : ~PyEq(names[j], name)) - 1
    ELSE -1

(* Variant: the bounds are kept as given *)
InRangeBounds_as_given(max_val, min_val) ==
    [max_val |-> max_val, min_val |-> min_val]

(* IN_RANGE: the bounds, converted to the column's type and put in order *)
InRangeBounds(max_val, min_val) ==
    [max_val |-> IF PyGe(max_val, min_val) THEN max_val ELSE min_val,
     min_val |-> IF PyLe(min_val, max_val) THEN min_val ELSE max_val]

(* The attributes __init__ sets for a primitive operator *)
PrimitiveInit(filter_spec, columns) ==
    LET column_names == [i \in 1..Len(columns) |-> columns[i].name]
        column_types == [i \in 1..Len(columns) |-> columns[i].type]
        column_index == ListIndex(column_names, filter_spec.column)
        base == [operator     |-> filter_spec.operator,
                 column_index |-> column_index,
                 column_name  |-> column_names[column_index + 1],
                 column_type  |-> column_types[column_index + 1]]
        InList(value_list) ==
            IF IsRaise(value_list) THEN value_list
            ELSE [operator |-> base.operator, column_index |-> column_index,
                  column_name |-> base.column_name,
                  column_type |-> base.column_type,
                  value_list |-> value_list]
        InRange(max_val, min_val) ==
            IF IsRaise(max_val) THEN max_val
            ELSE IF IsRaise(min_val) THEN min_val
            ELSE IF ~Orderable(max_val, min_val) THEN Raise("TypeError")
            ELSE [operator |-> base.operator, column_index |-> column_index,
                  column_name |-> base.column_name,
                  column_type |-> base.column_type,
                  max_val |-> InRangeBounds(max_val, min_val).max_val,
                  min_val |-> InRangeBounds(max_val, min_val).min_val]
    IN  IF column_index < 0 THEN InvalidDataException
        ELSE IF filter_spec.operator = OpIN_LIST
        THEN InList(_convert_list_to_type(base.column_type, filter_spec.values))
        ELSE IF filter_spec.operator = OpIN_RANGE
        THEN InRange(_convert_to_type(base.column_type, filter_spec.max_val),
                     _convert_to_type(base.column_type, filter_spec.min_val))
        ELSE \* REGEX_MATCH
             IF base.column_type # DATA_PLANE_STRING THEN InvalidDataException
             ELSE [operator |-> base.operator, column_index |-> column_index,
                   column_name |-> base.column_name,
                   column_type |-> base.column_type,
                   regex |-> re_compile(filter_spec.expression),
                   expression |-> filter_spec.expression]

(* DataPlaneFilter(filter_spec, columns), after the spec was validated: the *)
(* filter object, or the exception raised                                   *)
RECURSIVE BuildFilter(_, _)
BuildFilter(filter_spec, columns) ==
    IF filter_spec.operator \in CompoundOperators
    THEN LET arguments == [i \in 1..Len(filter_spec.arguments.v) |->
                              BuildFilter(filter_spec.arguments.v[i], columns)]
         IN  IF IsRaise(FirstRaise(arguments)) THEN FirstRaise(arguments)
             ELSE [operator |-> filter_spec.operator, arguments |-> arguments]
    ELSE PrimitiveInit(filter_spec, columns)

(* DataPlaneFilter.__init__ *)
DataPlaneFilter(filter_spec, columns) ==
    IF IsRaise(check_valid_spec(filter_spec)) THEN check_valid_spec(filter_spec)
    ELSE IF \E i \in 1..Len(columns) : ~_valid_column_spec(columns[i])
         THEN InvalidDataException
    ELSE BuildFilter(filter_spec, columns)

(* DataPlaneFilter.to_filter_spec *)
RECURSIVE to_filter_spec(_)
to_filter_spec(self) ==
    IF self.operator \in CompoundOperators
    THEN LET arguments == [i \in 1..Len(self.arguments) |->
                              to_filter_spec(self.arguments[i])]
         IN  IF IsRaise(FirstRaise(arguments)) THEN FirstRaise(arguments)
             ELSE [operator |-> self.operator, arguments |-> PyList(arguments)]
    ELSE IF self.operator = OpIN_LIST
    THEN LET values == _convert_list_to_string(self.column_type, self.value_list)
         IN  IF IsRaise(values) THEN values
             ELSE [operator |-> self.operator, column |-> self.column_name,
                   values |-> values]
    ELSE IF self.operator = OpIN_RANGE
    THEN LET max_val == _convert_to_output_string(self.column_type, self.max_val)
             min_val == _convert_to_output_string(self.column_type, self.min_val)
         IN  IF IsRaise(max_val) THEN max_val
             ELSE IF IsRaise(min_val) THEN min_val
             ELSE [operator |-> self.operator, column |-> self.column_name,
                   max_val |-> max_val, min_val |-> min_val]
    ELSE [operator |-> self.operator, column |-> self.column_name,
          expression |-> self.expression]

(* value in value_list: some element equals the value.  The row values and  *)
(* the filter's values are distinct objects, so a NaN is in no list.        *)
PyIn(value, value_list) ==
    \E k \in 1..Len(value_list.v) : PyEq(value, value_list.v[k])

(* reduce(lambda x, y: x & y, argument_indices, set(all_indices)) *)
RECURSIVE ReduceAnd(_, _)
ReduceAnd(argument_indices, initial) ==
    IF argument_indices = <<>> THEN initial
    ELSE ReduceAnd(Tail(argument_indices), initial \cap Head(argument_indices))

(* reduce(lambda x, y: x | y, argument_indices, set()) *)
RECURSIVE ReduceOr(_, _)
ReduceOr(argument_indices, initial) ==
    IF argument_indices = <<>> THEN initial
    ELSE ReduceOr(Tail(argument_indices), initial \cup Head(argument_indices))

(* reduce(lambda x, y: x - y, argument_indices, set(all_indices)) *)
RECURSIVE ReduceMinus(_, _)
ReduceMinus(argument_indices, initial) ==
    IF argument_indices = <<>> THEN initial
    ELSE ReduceMinus(Tail(argument_indices), initial \ Head(argument_indices))

(* Variant: the reduction starts from the empty set *)
AllIndices_empty(argument_indices, all_indices) == ReduceAnd(argument_indices, {})

AllIndices(argument_indices, all_indices) == ReduceAnd(argument_indices, all_indices)

(* Variant: the sets are intersected *)
AnyIndices_and(argument_indices) ==
    IF argument_indices = <<>> THEN {}
    ELSE ReduceAnd(Tail(argument_indices), Head(argument_indices))

AnyIndices(argument_indices) == ReduceOr(argument_indices, {})

(* Variant: only the indices that the first argument returns are removed *)
NoneIndices_first(argument_indices, all_indices) ==
    IF argument_indices = <<>> THEN all_indices
    ELSE all_indices \ argument_indices[1]

(* Variant: only the indices that every argument returns are removed *)
NoneIndices_and(argument_indices, all_indices) ==
    all_indices \ ReduceAnd(argument_indices, all_indices)

NoneIndices(argument_indices, all_indices) == ReduceMinus(argument_indices, all_indices)

(* The primitive branches: values[i] is row i's entry in the column *)
InListIndices(self, values, all_indices) ==
    {i \in all_indices : PyIn(values[i + 1], self.value_list)}

(* Variant: the upper bound is excluded *)
InRangeIndices_strict(self, values, all_indices) ==
    {i \in all_indices : PyLt(values[i + 1], self.max_val)
                         /\ PyGe(values[i + 1], self.min_val)}

InRangeIndices(self, values, all_indices) ==
    {i \in all_indices : PyLe(values[i + 1], self.max_val)
                         /\ PyGe(values[i + 1], self.min_val)}

(* Variant: regex.match in place of regex.fullmatch *)
RegexMatchIndices_match(self, values, all_indices) ==
    {i \in all_indices : re_match(self.regex, values[i + 1])}

RegexMatchIndices(self, values, all_indices) ==
    {i \in all_indices : re_fullmatch(self.regex, values[i + 1])}

(* DataPlaneFilter.filter_index: the set of the indices (from 0) of the     *)
(* rows that pass.  The rows hold values of their columns' types, so no     *)
(* comparison raises.                                                       *)
RECURSIVE filter_index(_, _)
filter_index(self, rows) ==
    LET all_indices == 0..(Len(rows) - 1)
        argument_indices == [k \in 1..Len(self.arguments) |->
                                filter_index(self.arguments[k], rows)]
        values == [i \in 1..Len(rows) |-> rows[i][self.column_index + 1]]
    IN  IF self.operator = OpALL THEN AllIndices(argument_indices, all_indices)
        ELSE IF self.operator = OpANY THEN AnyIndices(argument_indices)
        ELSE IF self.operator = OpNONE THEN NoneIndices(argument_indices, all_indices)
        ELSE IF self.operator = OpIN_LIST THEN InListIndices(self, values, all_indices)
        ELSE IF self.operator = OpIN_RANGE THEN InRangeIndices(self, values, all_indices)
        ELSE RegexMatchIndices(self, values, all_indices)

(* [rows[i] for i in range(len(rows)) if i in indices] *)
RECURSIVE SelectRows(_, _, _)
SelectRows(rows, indices, i) ==
    IF i >= Len(rows) THEN <<>>
    ELSE (IF i \in indices THEN <<rows[i + 1]>> ELSE <<>>)
         \o SelectRows(rows, indices, i + 1)

(* Variant: a row equal to an earlier row is not selected again *)
filter_once(self, rows) ==
    SelectRows(rows,
               {i \in filter_index(self, rows) :
                   \A j \in 0..(i - 1) :
                       j \in filter_index(self, rows) => rows[j + 1] # rows[i + 1]},
               0)

(* DataPlaneFilter.filter *)
filter(self, rows) == SelectRows(rows, filter_index(self, rows), 0)


-----------------------------------------------------------------------------
(* class DataPlaneTable and class RowTable.  A table object is the record   *)
(* of its attributes: schema, and the rows that get_rows() returns.         *)

(* DataPlaneTable.__init__: the schema is stored as it is given *)
DataPlaneTable(schema_given, get_rows) ==
    [schema |-> schema_given, rows |-> get_rows]

(* RowTable.__init__: a DataPlaneTable whose get_rows returns self.rows *)
RowTable(schema_given, rows) == DataPlaneTable(schema_given, rows)

(* [column["name"] for column in self.schema]: TypeError for an entry that  *)
(* cannot be subscripted by a string, KeyError for a dictionary without the *)
(* key                                                                      *)
column_names(self) ==
    ListOrRaise([i \in 1..Len(self.schema) |->
                    IF ~IsDict(self.schema[i]) THEN Raise("TypeError")
                    ELSE IF "name" \notin DOMAIN self.schema[i] THEN Raise("KeyError")
                    ELSE self.schema[i].name])

(* The members of set(values), in the order in which they came in: a value  *)
(* equal to an earlier one is no new member, and neither is a NaN that is   *)
(* the same object as an earlier NaN (a NaN equals nothing, itself          *)
(* included, but a set looks at the identity of an object first).           *)
RECURSIVE SetMembers(_, _)
SetMembers(values, same_object) ==
    IF values = <<>> THEN <<>>
    ELSE LET front == SubSeq(values, 1, Len(values) - 1)
             last == values[Len(values)]
         IN  IF \E i \in 1..Len(front) :
                    \/ PyEq(front[i], last)
                    \/ same_object /\ front[i].t = "nan" /\ last.t = "nan"
             THEN SetMembers(front, same_object)
             ELSE Append(SetMembers(front, same_object), last)

(* The orders in which the elements of a list can be put *)
Orderings(s) ==
    { [i \in 1..Len(s) |-> s[p[i]]] :
        p \in { q \in [1..Len(s) -> 1..Len(s)] :
                  \A i, j \in 1..Len(s) : q[i] = q[j] => i = j } }

(* list(set(values)): a set gives its members in an order of its own, that  *)
(* of their hashes; two NaN of a column may be one object or two.           *)
ListsOfSet(values) ==
    Orderings(SetMembers(values, TRUE)) \cup Orderings(SetMembers(values, FALSE))

(* list.sort() of a list shorter than 64, as CPython does it: the run that  *)
(* the list begins with is found, and reversed if it descends; the other    *)
(* elements are put in their places one by one, each place being found by   *)
(* bisection.  Every comparison is a <.                                     *)
RECURSIVE RunLength(_, _, _)
RunLength(a, n, descending) ==
    IF n = Len(a) THEN n
    ELSE IF PyLt(a[n + 1], a[n]) = descending THEN RunLength(a, n + 1, descending)
    ELSE n

Reverse(s) == [i \in 1..Len(s) |-> s[Len(s) + 1 - i]]

(* The place (from 0) of the pivot among the sorted elements a[l+1..r] *)
RECURSIVE Bisect(_, _, _, _)
Bisect(a, pivot, l, r) ==
    IF l >= r THEN l
    ELSE LET p == l + ((r - l) \div 2)
         IN  IF PyLt(pivot, a[p + 1]) THEN Bisect(a, pivot, l, p)
             ELSE Bisect(a, pivot, p + 1, r)

(* The elements after the first start ones are put among them *)
RECURSIVE BinarySort(_, _)
BinarySort(a, start) ==
    IF start >= Len(a) THEN a
    ELSE LET pivot == a[start + 1]
             place == Bisect(a, pivot, 0, start)
         IN  BinarySort(SubSeq(a, 1, place) \o <<pivot>>
                            \o SubSeq(a, place + 1, start)
                            \o SubSeq(a, start + 2, Len(a)),
                        start + 1)

list_sort(a) ==
    IF Len(a) < 2 THEN a
    ELSE LET descending == PyLt(a[2], a[1])
             n == RunLength(a, 2, descending)
             run == IF descending THEN Reverse(SubSeq(a, 1, n)) ELSE SubSeq(a, 1, n)
         IN  BinarySort(run \o SubSeq(a, n + 1, Len(a)), n)

(* [row[index] for row in rows] of all_values, for a column that the table  *)
(* has; the empty list where all_values does not get that far               *)
ColumnValues(self, column_name) ==
    LET names == column_names(self)
        index == ListIndex(names.v, column_name)
    IN  IF IsRaise(names) THEN <<>>
        ELSE IF index < 0 THEN <<>>
        ELSE [r \in 1..Len(self.rows) |-> self.rows[r][index + 1]]

(* DataPlaneTable.all_values(column_name), where listed is what             *)
(* list(set(...)) made of the values of the column                          *)
all_values(self, column_name, listed) ==
    LET names == column_names(self)
        index == ListIndex(names.v, column_name)
    IN  IF IsRaise(names) THEN names
        ELSE IF index < 0 THEN InvalidDataException
        ELSE IF "type" \notin DOMAIN self.schema[index + 1] THEN Raise("KeyError")
        ELSE LET Sorted(converted) ==
                     IF IsRaise(converted) THEN converted
                     ELSE PyList(list_sort(converted.v))
             IN  Sorted(_convert_list_to_type(self.schema[index + 1].type,
                                              PyList(listed)))

(* DataPlaneTable.range_spec(column_name), where listed is what             *)
(* list(set(...)) made of the values of the column in all_values.  The      *)
(* entries of the schema are looked at one by one; the last and the first   *)
(* of an empty list of values are an IndexError.                            *)
range_spec(self, column_name, listed) ==
    LET entry == ListOrRaise([i \in 1..Len(self.schema) |->
                    IF ~IsDict(self.schema[i]) THEN Raise("TypeError")
                    ELSE IF "name" \notin DOMAIN self.schema[i] THEN Raise("KeyError")
                    ELSE PyBool(PyEq(self.schema[i].name, column_name))])
    IN  IF IsRaise(entry) THEN entry
        ELSE IF \A i \in 1..Len(entry.v) : ~entry.v[i].v THEN InvalidDataException
        ELSE LET Ends(values) ==
                     IF IsRaise(values) THEN values
                     ELSE IF values.v = <<>> THEN Raise("IndexError")
                     ELSE [max_val |-> values.v[Len(values.v)], min_val |-> values.v[1]]
             IN  Ends(all_values(self, column_name, listed))

(* DataPlaneTable.numeric_spec(column_name) of the table module at the top  *)
(* of src, where listed is what list(set(...)) made of the values of the    *)
(* column in all_values.  all_values of that module is the one above for a  *)
(* number column whose values are numbers.  The dictionary is built from    *)
(* values[-1], values[0] and min(increments) in that order: the first is an *)
(* IndexError of an empty list, the last a ValueError of an empty list.     *)
numeric_spec(self, column_name, listed) ==
    LET entry == ListOrRaise([i \in 1..Len(self.schema) |->
                    IF ~IsDict(self.schema[i]) THEN Raise("TypeError")
                    ELSE IF "name" \notin DOMAIN self.schema[i] THEN Raise("KeyError")
                    ELSE PyBool(PyEq(self.schema[i].name, column_name))])
    IN  IF IsRaise(entry) THEN entry
        ELSE IF \A i \in 1..Len(entry.v) : ~entry.v[i].v THEN InvalidDataException
        ELSE LET first == CHOOSE i \in 1..Len(entry.v) :
                              entry.v[i].v /\ \A j \in 1..(i - 1) : ~entry.v[j].v
             IN  IF "type" \notin DOMAIN self.schema[first] THEN Raise("KeyError")
                 ELSE IF ~PyEq(self.schema[first].type, DATA_PLANE_NUMBER)
                      THEN InvalidDataException
                 ELSE LET Steps(values) ==
                              IF IsRaise(values) THEN values
                              ELSE IF \E i \in 1..Len(values.v) : values.v[i].t = "nan"
                                   THEN InvalidDataException
                              ELSE IF values.v = <<>> THEN Raise("IndexError")
                              ELSE LET shift == Tail(values.v)
                                       difference == [i \in 1..Len(shift) |->
                                                         shift[i].v - values.v[i].v]
                                       increments == { difference[i] : i \in 1..Len(shift) }
                                                         \cap { d \in Int : d > 0 }
                                   IN  IF increments = {} THEN Raise("ValueError")
                                       ELSE [max_val |-> values.v[Len(values.v)],
                                             min_val |-> values.v[1],
                                             increment |-> PyInt(CHOOSE d \in increments :
                                                             \A e \in increments : d <= e)]
                      IN  Steps(all_values(self, column_name, listed))

(* [row[i] for i in range(len(row)) if i in indices], indices being a list *)
_select_entries_from_row(row, indices) ==
    SelectRows(row, {indices[k] : k \in 1..Len(indices)}, 0)

(* [i for i in range(len(names)) if names[i] in columns] *)
ColumnIndices(names, columns) ==
    LET indices == {i \in 0..(Len(names) - 1) :
                       \E k \in 1..Len(columns) : PyEq(names[i + 1], columns[k])}
    IN  SelectRows([i \in 1..Len(names) |-> i - 1], indices, 0)

(* DataPlaneTable.get_filtered_rows(filter_spec, columns): the list of the  *)
(* rows, or the exception raised.  A filter_spec of None is no filter, and  *)
(* columns of None is the empty list.                                       *)
get_filtered_rows(self, filter_spec, columns) ==
    LET asked == IF columns = PyNone THEN <<>> ELSE columns.v
        names == column_names(self)
        column_indices == ColumnIndices(names.v, asked)
        Selected(rows) ==
            IF asked = <<>> THEN PyList(rows)
            ELSE IF IsRaise(names) THEN names
            ELSE PyList([r \in 1..Len(rows) |->
                            _select_entries_from_row(rows[r], column_indices)])
        Filtered(made_filter) ==
            IF IsRaise(made_filter) THEN made_filter
            ELSE Selected(filter(made_filter, self.rows))
    IN  IF filter_spec = PyNone THEN Selected(self.rows)
        ELSE Filtered(DataPlaneFilter(filter_spec, self.schema))


-----------------------------------------------------------------------------
(* DataPlaneFilter.get_all_column_values_in_filter.  A Python set is the    *)
(* record of its members, in the order in which they came in.               *)

PySet(members) == [t |-> "set", v |-> members]

(* The elements of the sets of a list, one set after the other *)
RECURSIVE Members(_)
Members(sets) ==
    IF sets = <<>> THEN <<>> ELSE sets[1].v \o Members(Tail(sets))

(* Variant: the arguments of a NONE are left out *)
RECURSIVE get_all_column_values_in_filter_but_none(_, _, _)
get_all_column_values_in_filter_but_none(self, column_name, same_object) ==
    IF column_name = PyNone THEN PySet(<<>>)
    ELSE IF ~IsStr(column_name) THEN PySet(<<>>)
    ELSE IF self.operator = OpNONE THEN PySet(<<>>)
    ELSE IF self.operator \in CompoundOperators
    THEN PySet(SetMembers(Members([k \in 1..Len(self.arguments) |->
                    get_all_column_values_in_filter_but_none(self.arguments[k], column_name,
                                                             same_object)]),
                          same_object))
    ELSE IF ~PyEq(column_name, self.column_name) THEN PySet(<<>>)
    ELSE IF self.operator = OpIN_LIST THEN PySet(SetMembers(self.value_list.v, same_object))
    ELSE IF self.operator = OpIN_RANGE
    THEN PySet(SetMembers(<<self.max_val, self.min_val>>, same_object))
    ELSE PySet(<<self.expression>>)

(* get_all_column_values_in_filter(column_name); same_object tells whether  *)
(* the NaN values of the filter are one object.  values.union(...) of each  *)
(* argument in turn keeps the members in the order in which they came in.   *)
RECURSIVE get_all_column_values_in_filter(_, _, _)
get_all_column_values_in_filter(self, column_name, same_object) ==
    IF column_name = PyNone THEN PySet(<<>>)
    ELSE IF ~IsStr(column_name) THEN PySet(<<>>)
    ELSE IF self.operator \in CompoundOperators
    THEN PySet(SetMembers(Members([k \in 1..Len(self.arguments) |->
                    get_all_column_values_in_filter(self.arguments[k], column_name,
                                                    same_object)]),
                          same_object))
    ELSE IF ~PyEq(column_name, self.column_name) THEN PySet(<<>>)
    ELSE IF self.operator = OpIN_LIST THEN PySet(SetMembers(self.value_list.v, same_object))
    ELSE IF self.operator = OpIN_RANGE
    THEN PySet(SetMembers(<<self.max_val, self.min_val>>, same_object))
    ELSE PySet(<<self.expression>>)


-----------------------------------------------------------------------------
(* The server of src/server.  Its registry table_servers is a dictionary,   *)
(* held as the list of its items in the order in which the keys came in;    *)
(* an item has the name, the table and the headers of a registration.       *)

(* table_servers[table_name], or KeyError *)
ServerOf(table_servers, table_name) ==
    IF \E i \in 1..Len(table_servers) : table_servers[i].name = table_name
    THEN table_servers[CHOOSE i \in 1..Len(table_servers) :
                          table_servers[i].name = table_name]
    ELSE Raise("KeyError")

(* table_servers[table_name] = server: the item of a key that is there is   *)
(* replaced in its place, a new key comes last                              *)
SetServer(table_servers, table_name, server) ==
    LET item == [name |-> table_name, table |-> server.table, headers |-> server.headers]
    IN  IF \E i \in 1..Len(table_servers) : table_servers[i].name = table_name
        THEN [i \in 1..Len(table_servers) |->
                 IF table_servers[i].name = table_name THEN item ELSE table_servers[i]]
        ELSE Append(table_servers, item)

(* table.is_dataplane_table: the attribute that DataPlaneTable.__init__     *)
(* sets; any other object has none (AttributeError)                         *)
HasIsDataplaneTable(table) == "schema" \in DOMAIN table

(* _check_headers(headers): None, or the AssertionError of a header without *)
(* a variable or without a value                                            *)
_check_headers(headers) ==
    IF \A i \in 1..Len(headers) :
          "variable" \in DOMAIN headers[i] /\ "value" \in DOMAIN headers[i]
    THEN PyNone
    ELSE Raise("AssertionError")

(* The argument that a call leaves to its default *)
Omitted == [t |-> "omitted"]

(* Variant: the table is registered before its headers are checked *)
add_data_plane_table_early(table_servers, table_name, table, required_headers) ==
    LET headers == IF required_headers = Omitted THEN PyList(<<>>) ELSE required_headers
        registered == IF table = PyNone \/ ~HasIsDataplaneTable(table) THEN table_servers
                      ELSE SetServer(table_servers, table_name,
                                     [table |-> table, headers |-> headers])
    IN  IF table = PyNone \/ ~HasIsDataplaneTable(table)
           \/ IsRaise(_check_headers(headers.v))
        THEN [result |-> InvalidDataException, table_servers |-> registered]
        ELSE [result |-> PyNone, table_servers |-> registered]

(* add_data_plane_table(table_name, table, required_headers = []): the      *)
(* exception raised, or None, and the registry afterwards                   *)
add_data_plane_table(table_servers, table_name, table, required_headers) ==
    LET headers == IF required_headers = Omitted THEN PyList(<<>>) ELSE required_headers
    IN  IF table = PyNone
        THEN [result |-> InvalidDataException, table_servers |-> table_servers]
        ELSE IF ~HasIsDataplaneTable(table)
        THEN [result |-> InvalidDataException, table_servers |-> table_servers]
        ELSE IF IsRaise(_check_headers(headers.v))
        THEN [result |-> InvalidDataException, table_servers |-> table_servers]
        ELSE [result |-> PyNone,
              table_servers |-> SetServer(table_servers, table_name,
                                          [table |-> table, headers |-> headers])]

(* abort(code, message): the HTTPException that ends the request with the   *)
(* status code                                                              *)
HttpAbort(code) == [raised |-> "HTTPException", code |-> code]

_log_and_abort(code) == HttpAbort(code)

(* jsonify(value): the response, of status 200, with the value as its JSON. *)
(* The values that the tables of the server hold are strings and integers,  *)
(* which are in the JSON as they are.                                       *)
jsonify(value) == [json |-> value]

(* request.headers.get(name) and request.args.get(name): None for a name    *)
(* that is not there.  The headers are a function of their names, the       *)
(* names as the framework matches them.                                     *)
DictGet(dict, name) == IF name \in DOMAIN dict THEN dict[name] ELSE PyNone

HeaderTableName == PyStr(<<"T", "a", "b", "l", "e", "-", "N", "a", "m", "e">>)
HeaderFilterSpec == PyStr(<<"F", "i", "l", "t", "e", "r", "-", "S", "p", "e", "c">>)

(* A text that is the JSON of a value *)
JsonText(value) == [t |-> "json", v |-> value]

(* loads(text): the value of a text that is the JSON of one, and            *)
(* JSONDecodeError for any other text                                       *)
loads(text) == IF text.t = "json" THEN text.v ELSE Raise("JSONDecodeError")

(* Variant: every request is authorized *)
_server_authorized_any(server, request) == TRUE

(* _server_authorized(server): the table requires no header, or every       *)
(* header it requires is in the request with the required value             *)
_server_authorized(server, request) ==
    IF server.headers = PyNone THEN TRUE
    ELSE IF Len(server.headers.v) = 0 THEN TRUE
    ELSE \A i \in 1..Len(server.headers.v) :
            LET auth_value == DictGet(request.headers, server.headers.v[i].variable)
            IN  ~(auth_value = PyNone \/ ~PyEq(auth_value, server.headers.v[i].value))

(* check_authorization(route, table_name, server): None, or the abort 403 *)
check_authorization(server, request) ==
    IF ~_server_authorized(server, request) THEN _log_and_abort(403) ELSE PyNone

(* _table_server_if_authorized(request_api, table_name): the table, the     *)
(* abort 400 for a name without an entry, the abort 403 for a table that    *)
(* the request is not authorized for                                        *)
_table_server_if_authorized(table_servers, request, table_name) ==
    LET server == ServerOf(table_servers, table_name)
    IN  IF IsRaise(server) THEN _log_and_abort(400)
        ELSE IF IsRaise(check_authorization(server, request))
             THEN check_authorization(server, request)
        ELSE server.table

(* _get_table_server(request_api) *)
_get_table_server(table_servers, request) ==
    _table_server_if_authorized(table_servers, request,
                                DictGet(request.headers, HeaderTableName))

(* _get_all_tables(): the tables that the request is authorized for, in the *)
(* order of the registry                                                    *)
_get_all_tables(table_servers, request) ==
    LET authorized == SelectSeq(table_servers,
                                LAMBDA server : _server_authorized(server, request))
    IN  [i \in 1..Len(authorized) |-> authorized[i].table]

(* _get_table_servers(request_api): the list of the table of the name, or   *)
(* of all tables that the request is authorized for when it has no name; an *)
(* abort 400 when there is none of these                                    *)
_get_table_servers(table_servers, request) ==
    LET table_name == DictGet(request.headers, HeaderTableName)
        named == _table_server_if_authorized(table_servers, request, table_name)
        authorized_servers == _get_all_tables(table_servers, request)
    IN  IF table_name # PyNone
        THEN (IF IsRaise(named) THEN named ELSE PyList(<<named>>))
        ELSE IF Len(authorized_servers) = 0 THEN _log_and_abort(400)
        ELSE PyList(authorized_servers)

(* except InvalidDataException: the exception is one that the clause       *)
(* catches                                                                  *)
ExceptInvalidData(x) == IsRaise(x) /\ x.raised = "InvalidDataException"

(* DataPlaneTable.get_column_type(column_name), of a table with a schema of *)
(* named and typed columns: the type of the first column of the name, or    *)
(* None                                                                     *)
get_column_type(self, column_name) ==
    LET matches == SelectSeq(self.schema, LAMBDA column : PyEq(column.name, column_name))
    IN  IF Len(matches) = 0 THEN PyNone ELSE matches[1].type

DEFAULT_HEADER_VARIABLES == [required |-> PyList(<<>>), optional |-> PyList(<<>>)]

(* The route /get_tables: the schema of every table that the request is     *)
(* authorized for, under its name; the dictionary is held as the list of    *)
(* its items                                                                *)
get_tables(table_servers, request) ==
    LET authorized == SelectSeq(table_servers,
                                LAMBDA server : _server_authorized(server, request))
    IN  jsonify([i \in 1..Len(authorized) |->
                    [name |-> authorized[i].name, schema |-> authorized[i].table.schema]])

(* The route /get_filtered_rows of src/server: the Filter-Spec header is    *)
(* read before the table is looked up                                       *)
get_filtered_rows_route(table_servers, request) ==
    LET filter_spec_as_json == DictGet(request.headers, HeaderFilterSpec)
        filter_spec == IF filter_spec_as_json # PyNone THEN loads(filter_spec_as_json)
                       ELSE PyNone
        Tried(filtered) ==
            IF ExceptInvalidData(filtered) THEN _log_and_abort(400)
            ELSE IF IsRaise(filtered) THEN filtered
            ELSE jsonify(filtered)
        Checked(server, valid) ==
            IF ExceptInvalidData(valid) THEN _log_and_abort(400)
            ELSE IF IsRaise(valid) THEN valid
            ELSE Tried(get_filtered_rows(server, filter_spec, PyList(<<>>)))
        Found(server) ==
            IF IsRaise(server) THEN server
            ELSE IF filter_spec # PyNone
            THEN Checked(server, check_valid_spec(filter_spec))
            ELSE jsonify(PyList(server.rows))
    IN  IF filter_spec_as_json # PyNone /\ IsRaise(filter_spec) THEN _log_and_abort(400)
        ELSE Found(_get_table_server(table_servers, request))

(* The lists of a list, one after the other *)
RECURSIVE Concat(_)
Concat(lists) ==
    IF lists = <<>> THEN <<>> ELSE Head(lists).v \o Concat(Tail(lists))

(* The route /get_all_values.  The values of a column are of one class and  *)
(* no NaN, so that the sorted list does not depend on the order in which a  *)
(* set gives its members.                                                   *)
get_all_values(table_servers, request) ==
    LET servers == _get_table_servers(table_servers, request)
        column_name == DictGet(request.args, "column_name")
        matching_servers == SelectSeq(servers.v,
                                LAMBDA server : get_column_type(server, column_name) # PyNone)
        Joined(values) ==
            IF ExceptInvalidData(FirstRaise(values)) THEN _log_and_abort(400)
            ELSE IF IsRaise(FirstRaise(values)) THEN FirstRaise(values)
            ELSE jsonify(PyList(list_sort(SetMembers(Concat(values), TRUE))))
    IN  IF IsRaise(servers) THEN servers
        ELSE IF column_name = PyNone THEN _log_and_abort(400)
        ELSE IF Len(matching_servers) = 0 THEN _log_and_abort(400)
        ELSE Joined([i \in 1..Len(matching_servers) |->
                        all_values(matching_servers[i], column_name,
                                   SetMembers(ColumnValues(matching_servers[i], column_name),
                                              TRUE))])

(* The route /get_numeric_spec: the tables of the registry are those of     *)
(* dataplane.data_plane_table, which have no method numeric_spec            *)
get_numeric_spec(table_servers, request) ==
    LET servers == _get_table_servers(table_servers, request)
        column_name == DictGet(request.args, "column_name")
        matching_servers == SelectSeq(servers.v,
                                LAMBDA server : get_column_type(server, column_name)
                                                    = DATA_PLANE_NUMBER)
    IN  IF IsRaise(servers) THEN servers
        ELSE IF column_name = PyNone THEN _log_and_abort(400)
        ELSE IF Len(matching_servers) = 0 THEN _log_and_abort(400)
        ELSE Raise("AttributeError")

(* The route /get_table_spec *)
get_table_spec(table_servers, request) ==
    LET servers == _get_table_servers(table_servers, request)
    IN  IF IsRaise(servers) THEN servers
        ELSE jsonify([header_variables |-> DEFAULT_HEADER_VARIABLES,
                      schema |-> servers.v[1].schema])


(* The server of src/data_plane_server.  Its tables are held by a           *)
(* TableServer, whose module is not in the repository as given: what the    *)
(* routes and the CSV server use of it is that add_data_plane_table takes a *)
(* dictionary with the name and the table, and that get_table returns the   *)
(* table of the name or raises TableNotFoundException or                    *)
(* TableNotAuthorizedException.  Whether the headers of a request authorize *)
(* it for a table is left open.                                             *)
TableNotFoundException == Raise("TableNotFoundException")
TableNotAuthorizedException == Raise("TableNotAuthorizedException")

TableServer_add_data_plane_table(table_servers, table_spec) ==
    SetServer(table_servers, table_spec.name,
              [table |-> table_spec.table, headers |-> PyList(<<>>)])

TableServer_get_table(table_servers, table_name, authorized) ==
    IF IsRaise(ServerOf(table_servers, table_name)) THEN TableNotFoundException
    ELSE IF ~authorized THEN TableNotAuthorizedException
    ELSE ServerOf(table_servers, table_name).table

NON_JSONIFIABLE_TYPES == { DATA_PLANE_DATE, DATA_PLANE_TIME_OF_DAY, DATA_PLANE_DATETIME }

(* _column_types(table, columns): the types of all columns for no columns,  *)
(* else those of the columns of the schema whose name is among the columns  *)
_column_types(table, columns) ==
    IF columns = <<>> THEN [i \in 1..Len(table.schema) |-> table.schema[i].type]
    ELSE LET named == SelectSeq(table.schema,
                          LAMBDA column : \E k \in 1..Len(columns) :
                                             PyEq(column.name, columns[k]))
         IN  [i \in 1..Len(named) |-> named[i].type]

(* _jsonifiable_rows_(rows, column_types): dates and times are put as their *)
(* isoformat, everything else as it is; a row longer than the list of types *)
(* is an IndexError                                                         *)
_jsonifiable_rows_(rows, column_types) ==
    IF \E r \in 1..Len(rows) : Len(rows[r]) > Len(column_types) THEN Raise("IndexError")
    ELSE PyList([r \in 1..Len(rows) |->
                    [i \in 1..Len(rows[r]) |->
                        IF column_types[i] \in NON_JSONIFIABLE_TYPES
                        THEN isoformat(rows[r][i])
                        ELSE rows[r][i]]])

(* The route /get_filtered_rows of src/data_plane_server, which takes the   *)
(* table, the filter and the columns from the JSON of the body.  A body     *)
(* that is no JSON ends the request with 400.  A body that is the JSON of   *)
(* anything but a dictionary is a TypeError, of the test for the key or of  *)
(* the subscript.  The call of table.get_filtered_rows is in no try.        *)
get_filtered_rows_post(table_servers, request, authorized) ==
    LET data == loads(request.json)
        filter_spec == IF "filter" \in DOMAIN data THEN data.filter ELSE PyNone
        given == IF "columns" \in DOMAIN data THEN data.columns ELSE PyList(<<>>)
        columns == IF given = PyNone THEN PyList(<<>>) ELSE given
        Jsonified(jsonifiable_result) ==
            IF IsRaise(jsonifiable_result) THEN jsonifiable_result
            ELSE jsonify(jsonifiable_result)
        Rows(table, filtered) ==
            IF IsRaise(filtered) THEN filtered
            ELSE Jsonified(_jsonifiable_rows_(filtered.v, _column_types(table, columns.v)))
        Checked(table, valid) ==
            IF filter_spec # PyNone /\ ExceptInvalidData(valid) THEN _log_and_abort(400)
            ELSE IF filter_spec # PyNone /\ IsRaise(valid) THEN valid
            ELSE Rows(table, get_filtered_rows(table, filter_spec, columns))
        Named(table, names) ==
            IF IsRaise(names) THEN names
            ELSE IF \E k \in 1..Len(columns.v) : ListIndex(names.v, columns.v[k]) < 0
                 THEN _log_and_abort(400)
            ELSE Checked(table, check_valid_spec(filter_spec))
        Found(table) ==
            IF table = TableNotFoundException THEN _log_and_abort(400)
            ELSE IF table = TableNotAuthorizedException THEN _log_and_abort(403)
            ELSE IF ~IsList(columns) THEN _log_and_abort(400)
            ELSE Named(table, column_names(table))
    IN  IF IsRaise(data) THEN _log_and_abort(400)
        ELSE IF ~IsDict(data) THEN Raise("TypeError")
        ELSE IF "table" \notin DOMAIN data THEN _log_and_abort(400)
        ELSE Found(TableServer_get_table(table_servers, data.table, authorized))

-----------------------------------------------------------------------------
(* The inputs of the model *)

MaxRows == 2
MaxValues == 2
MaxArgs == 2

(* The sequences over S of length at most n *)
RECURSIVE SeqsUpTo(_, _)
SeqsUpTo(S, n) ==
    IF n = 0 THEN {<<>>}
    ELSE LET shorter == SeqsUpTo(S, n - 1)
         IN  shorter \cup {Append(q, x) : q \in shorter, x \in S}

ColName == PyStr(<<"n", "a", "m", "e">>)
ColAge == PyStr(<<"a", "g", "e">>)
ColDate == PyStr(<<"d", "a", "t", "e">>)
ColTime == PyStr(<<"t", "i", "m", "e">>)
ColDateTime == PyStr(<<"d", "a", "t", "e", "t", "i", "m", "e">>)
ColBoolean == PyStr(<<"b", "o", "o", "l", "e", "a", "n">>)

(* The schema of the filter tests *)
schema ==
    << [name |-> ColName, type |-> DATA_PLANE_STRING],
       [name |-> ColAge, type |-> DATA_PLANE_NUMBER],
       [name |-> ColDate, type |-> DATA_PLANE_DATE],
       [name |-> ColTime, type |-> DATA_PLANE_TIME_OF_DAY],
       [name |-> ColDateTime, type |-> DATA_PLANE_DATETIME],
       [name |-> ColBoolean, type |-> DATA_PLANE_BOOLEAN] >>

ColumnNames == {schema[i].name : i \in 1..Len(schema)}

StrFoo == PyStr(<<"f", "o", "o">>)
StrFoobar == PyStr(<<"f", "o", "o", "b", "a", "r">>)
StrA == PyStr(<<"a">>)
Str02 == PyStr(<<"0", "2">>)
StrNan == PyStr(<<"n", "a", "n">>)
StrTime == PyStr(<<"0", "1", ":", "1", "1">>)
StrTimeIso == PyStr(<<"0", "2", ":", "0", "0", ":", "0", "0">>)
StrDateTimeIso ==
    PyStr(<<"2", "0", "2", "3", "-", "0", "9", "-", "1", "2",
            "T", "0", "1", ":", "1", "1", ":", "0", "0">>)
StrDay1 == PyStr(<<"2", "0", "2", "3", "-", "0", "9", "-", "1", "1">>)
StrDay2 == PyStr(<<"2", "0", "2", "3", "-", "0", "9", "-", "1", "2">>)

(* Rows of the schema: every entry is a value of its column's type *)
Rows ==
    { << StrFoo, PyInt(1), PyDate(2023, 9, 11), PyTime(1, 11, 0),
         PyDateTime(2023, 9, 11, 0, 0, 0), PyBool(TRUE) >>,
      << StrFoobar, PyInt(2), PyDate(2023, 9, 12), PyTime(2, 0, 0),
         PyDateTime(2023, 9, 12, 1, 11, 0), PyBool(FALSE) >>,
      << StrA, NaN, PyDate(2023, 9, 11), PyTime(2, 0, 0),
         PyDateTime(2023, 9, 11, 0, 0, 0), PyBool(TRUE) >> }

RowLists == SeqsUpTo(Rows, MaxRows)

(* The values a spec gives as a bound of an IN_RANGE *)
RangeValues ==
    { PyNone, PyBool(TRUE), PyInt(1), PyInt(2), NaN,
      StrA, StrFoo, Str02, StrNan, StrTime, StrTimeIso, StrDay1, StrDay2,
      StrDateTimeIso }

(* The values a spec gives in the list of an IN_LIST *)
ListValues == { PyInt(1), Str02, StrFoo, StrDay1 }

(* The expressions of a REGEX_MATCH *)
Expressions ==
    { PyStr(<<>>), StrFoo, PyStr(<<"f", "o", "*">>),
      PyStr(<<"f", "o", "o", ".", "*">>), PyStr(<<"^", ".", "*", "$">>),
      PyStr(<<"*">>), PyStr(<<"(">>), PyNone }

InListSpecs ==
    { [operator |-> OpIN_LIST, column |-> c, values |-> PyList(vs)] :
        c \in ColumnNames, vs \in SeqsUpTo(ListValues, MaxValues) }

InRangeSpecs ==
    { [operator |-> OpIN_RANGE, column |-> c, max_val |-> hi, min_val |-> lo] :
        c \in ColumnNames, hi \in RangeValues, lo \in RangeValues }

RegexMatchSpecs ==
    { [operator |-> OpREGEX_MATCH, column |-> c, expression |-> e] :
        c \in ColumnNames, e \in Expressions }

PrimitiveSpecs == InListSpecs \cup InRangeSpecs \cup RegexMatchSpecs

(* The primitive specs that the compound specs are built from *)
ArgumentSpecs ==
    { [operator |-> OpIN_LIST, column |-> ColName, values |-> PyList(<<StrFoo>>)],
      [operator |-> OpIN_LIST, column |-> ColName, values |-> PyList(<<StrA>>)],
      [operator |-> OpIN_LIST, column |-> ColDate, values |-> PyList(<<PyInt(1)>>)],
      [operator |-> OpIN_RANGE, column |-> ColAge,
       max_val |-> PyInt(1), min_val |-> Str02],
      [operator |-> OpREGEX_MATCH, column |-> ColName,
       expression |-> PyStr(<<"f", "o", "o", ".", "*">>)] }

Compound(S) ==
    { [operator |-> op, arguments |-> PyList(args)] :
        op \in CompoundOperators, args \in SeqsUpTo(S, MaxArgs) }

(* Compound specs of one level, and compound specs with one of these and    *)
(* at most one primitive spec as their arguments                            *)
CompoundSpecs == Compound(ArgumentSpecs)

NestedSpecs ==
    { [operator |-> op, arguments |-> PyList(args)] :
        op \in CompoundOperators,
        args \in { <<c>> : c \in Compound({ }) \cup Compound(ArgumentSpecs) }
                 \cup { <<p, c>> : p \in ArgumentSpecs, c \in Compound({ }) } }

FilterSpecs == PrimitiveSpecs \cup CompoundSpecs \cup NestedSpecs

-----------------------------------------------------------------------------
(* The state: a caller holds a schema, a filter spec and a list of rows,    *)
(* constructs a filter from the spec, calls its methods, and constructs a   *)
(* second filter from the spec that to_filter_spec() returned.              *)

VARIABLES
    columns,        \* the schema given to the constructor
    filter_spec,    \* the spec given to the constructor
    rows,           \* the rows given to filter and filter_index
    made_filter,    \* the filter constructed from filter_spec, or its exception
    copy,           \* the filter constructed from made_filter.to_filter_spec()
    call,           \* the last call made
    result,         \* what the last call returned, or the exception it raised
    data_plane_type,\* the type given to _convert_to_type and convert_to_type
    value_given,    \* the value given to them
    table,          \* the table constructed from columns and rows, or its exception
    column_name,    \* the column name given to the table's methods
    columns_given,  \* the columns argument given to get_filtered_rows
    table_servers,  \* the registry of the server: name -> table and headers
    request,        \* the call that the server handles: its arguments or its headers
    connected,      \* the connected flag of the remote table
    sent,           \* the requests the remote table has sent to its peer
    response        \* what the peer answered to the last request

(* The arguments of the conversions, and the table with the argument of     *)
(* its methods                                                              *)
coerce_vars == <<data_plane_type, value_given>>
table_vars == <<table, column_name, columns_given>>

(* The registry of the server with the request at hand, and the remote      *)
(* table with its peer                                                      *)
server_vars == <<table_servers, request>>
remote_vars == <<connected, sent, response>>

vars == <<columns, filter_spec, rows, made_filter, copy, call, result,
          data_plane_type, value_given, table, column_name, columns_given,
          table_servers, request, connected, sent, response>>

(* table_servers = {} of the server module, and no request *)
NoServer ==
    /\ table_servers = <<>>
    /\ request = PyNone

(* No remote table *)
NoRemote ==
    /\ connected = FALSE
    /\ sent = <<>>
    /\ response = PyNone

Init ==
    /\ columns = schema
    /\ filter_spec \in FilterSpecs
    /\ rows \in RowLists
    /\ made_filter = PyNone
    /\ copy = PyNone
    /\ call = "none"
    /\ result = PyNone
    /\ data_plane_type = PyNone
    /\ value_given = PyNone
    /\ table = PyNone
    /\ column_name = PyNone
    /\ columns_given = PyNone
    /\ NoServer
    /\ NoRemote

Constructed(f) == f # PyNone /\ ~IsRaise(f)

(* made_filter = DataPlaneFilter(filter_spec, columns) *)
Construct ==
    /\ made_filter = PyNone
    /\ made_filter' = DataPlaneFilter(filter_spec, columns)
    /\ call' = "__init__"
    /\ result' = PyNone
    /\ UNCHANGED <<columns, filter_spec, rows, copy>>
    /\ UNCHANGED <<coerce_vars, table_vars, server_vars, remote_vars>>

(* made_filter.filter_index(rows) *)
FilterIndex ==
    /\ Constructed(made_filter)
    /\ copy = PyNone
    /\ call' = "filter_index"
    /\ result' = filter_index(made_filter, rows)
    /\ UNCHANGED <<columns, filter_spec, rows, made_filter, copy>>
    /\ UNCHANGED <<coerce_vars, table_vars, server_vars, remote_vars>>

(* made_filter.filter(rows) *)
(* Variant: the rows that do not pass are taken out of the list given *)
Filter_in_place ==
    /\ Constructed(made_filter)
    /\ copy = PyNone
    /\ call' = "filter"
    /\ result' = filter(made_filter, rows)
    /\ rows' = filter(made_filter, rows)
    /\ UNCHANGED <<columns, filter_spec, made_filter, copy>>
    /\ UNCHANGED <<coerce_vars, table_vars, server_vars, remote_vars>>
Filter ==
    /\ Constructed(made_filter)
    /\ copy = PyNone
    /\ call' = "filter"
    /\ result' = filter(made_filter, rows)
    /\ UNCHANGED <<columns, filter_spec, rows, made_filter, copy>>
    /\ UNCHANGED <<coerce_vars, table_vars, server_vars, remote_vars>>

(* made_filter.to_filter_spec() *)
ToFilterSpec ==
    /\ Constructed(made_filter)
    /\ copy = PyNone
    /\ call' = "to_filter_spec"
    /\ result' = to_filter_spec(made_filter)
    /\ UNCHANGED <<columns, filter_spec, rows, made_filter, copy>>
    /\ UNCHANGED <<coerce_vars, table_vars, server_vars, remote_vars>>

(* copy = DataPlaneFilter(made_filter.to_filter_spec(), columns) *)
ConstructCopy ==
    /\ call = "to_filter_spec"
    /\ ~IsRaise(result)
    /\ copy = PyNone
    /\ copy' = DataPlaneFilter(result, columns)
    /\ call' = "copy.__init__"
    /\ result' = PyNone
    /\ UNCHANGED <<columns, filter_spec, rows, made_filter>>
    /\ UNCHANGED <<coerce_vars, table_vars, server_vars, remote_vars>>

(* copy.filter_index(rows) *)
CopyFilterIndex ==
    /\ Constructed(copy)
    /\ call = "copy.__init__"
    /\ call' = "copy.filter_index"
    /\ result' = filter_index(copy, rows)
    /\ UNCHANGED <<columns, filter_spec, rows, made_filter, copy>>
    /\ UNCHANGED <<coerce_vars, table_vars, server_vars, remote_vars>>

Next ==
    \/ Construct
    \/ FilterIndex
    \/ Filter
    \/ ToFilterSpec
    \/ ConstructCopy
    \/ CopyFilterIndex

Spec == Init /\ [][Next]_vars


-----------------------------------------------------------------------------
(* Validation and column binding: check_valid_spec and the constructor on   *)
(* specs and schemas that may be malformed                                  *)

SpecFields == {"arguments", "column", "values", "max_val", "min_val", "expression"}

FieldDefault(f) ==
    IF f = "arguments" THEN PyList(<<>>)
    ELSE IF f = "column" THEN ColName
    ELSE IF f = "values" THEN PyList(<<>>)
    ELSE IF f = "max_val" THEN PyInt(2)
    ELSE IF f = "min_val" THEN PyInt(1)
    ELSE StrFoo

(* Values that are no dictionary, dictionaries with no operator, and        *)
(* dictionaries whose operator is no string                                 *)
NonSpecs ==
    { PyNone, PyInt(1), StrA, PyList(<<PyInt(1)>>) }
    \cup { [f \in S |-> FieldDefault(f)] : S \in (SUBSET SpecFields) \ {{}} }
    \cup { [f \in S \cup {"operator"} |->
               IF f = "operator" THEN op ELSE FieldDefault(f)] :
             op \in {PyNone, PyInt(1), PyList(<<PyInt(1)>>)},
             S \in {{}, SpecFields} }

(* The operator names given to check_valid_spec: the six, and one that is   *)
(* none of them                                                             *)
OperatorInputs ==
    {OpALL, OpANY, OpNONE, OpIN_LIST, OpIN_RANGE, OpREGEX_MATCH, StrFoo}

(* Every operator name with every set of fields *)
FieldSpecs ==
    { [f \in S \cup {"operator"} |->
          IF f = "operator" THEN op ELSE FieldDefault(f)] :
        op \in OperatorInputs, S \in SUBSET SpecFields }

(* Column names of a spec: columns of the schema, and one that is none *)
ColumnInputs == {ColName, ColAge, ColDate, ColTime, StrFoo}

ValuesInputs ==
    { PyNone, PyInt(1), StrA, PyList(<<>>), PyList(<<PyInt(1)>>), PyList(<<StrFoo>>) }

BoundInputs ==
    { PyNone, PyBool(TRUE), PyInt(1), NaN, StrA, Str02,
      PyList(<<>>), PyList(<<PyInt(1)>>), PyList(<<StrA>>) }

ExpressionInputs == Expressions \cup { PyInt(1), PyList(<<PyInt(1)>>) }

PrimitiveInputs ==
    { [operator |-> OpIN_LIST, column |-> c, values |-> vs] :
        c \in ColumnInputs, vs \in ValuesInputs }
    \cup { [operator |-> OpIN_RANGE, column |-> c, max_val |-> hi, min_val |-> lo] :
             c \in ColumnInputs, hi \in BoundInputs, lo \in BoundInputs }
    \cup { [operator |-> OpREGEX_MATCH, column |-> c, expression |-> e] :
             c \in ColumnInputs, e \in ExpressionInputs }

(* The arguments the compound inputs are built from: valid specs, specs     *)
(* that check_valid_spec rejects and specs that only the constructor does   *)
ArgumentInputs ==
    { [operator |-> OpIN_LIST, column |-> ColName, values |-> PyList(<<StrFoo>>)],
      [operator |-> OpREGEX_MATCH, column |-> ColName,
       expression |-> PyStr(<<"f", "o", "o", ".", "*">>)],
      PyNone,
      [operator |-> StrFoo],
      [operator |-> OpIN_LIST, values |-> PyList(<<PyInt(1)>>)],
      [operator |-> OpREGEX_MATCH, column |-> ColName, expression |-> PyStr(<<"(">>)],
      [operator |-> OpIN_RANGE, column |-> ColAge, max_val |-> StrA, min_val |-> PyInt(1)],
      [operator |-> OpIN_LIST, column |-> StrFoo, values |-> PyList(<<>>)],
      [operator |-> OpREGEX_MATCH, column |-> ColAge, expression |-> StrFoo] }

CompoundInputs ==
    { [operator |-> op, arguments |-> args] :
        op \in CompoundOperators,
        args \in { PyNone, PyInt(1), StrA, [column |-> ColName] }
                 \cup { PyList(q) : q \in SeqsUpTo(ArgumentInputs, MaxArgs) } }

(* A valid spec followed by a compound spec of one argument *)
NestedInputs ==
    { [operator |-> op,
       arguments |-> PyList(<< [operator |-> OpIN_LIST, column |-> ColName,
                                values |-> PyList(<<StrFoo>>)],
                               [operator |-> inner, arguments |-> PyList(<<x>>)] >>)] :
        op \in CompoundOperators, inner \in CompoundOperators, x \in ArgumentInputs }

SpecInputs ==
    NonSpecs \cup FieldSpecs \cup PrimitiveInputs \cup CompoundInputs \cup NestedInputs

(* The schemas of test_data_plane_filter_bad_columns, and the schema of the *)
(* filter tests                                                             *)
SchemaInputs ==
    { schema,
      << [name |-> ColName, type |-> DATA_PLANE_STRING],
         [name |-> ColAge, type |-> DATA_PLANE_NUMBER] >>,
      << PyInt(1), PyInt(2) >>,
      << [a |-> PyInt(3), type |-> DATA_PLANE_STRING] >>,
      << [name |-> PyInt(3)] >>,
      << [name |-> PyInt(3)], [name |-> ColName, type |-> DATA_PLANE_STRING] >>,
      << [name |-> ColAge, type |-> DATA_PLANE_NUMBER] >> }

InitValidate ==
    /\ columns \in SchemaInputs
    /\ filter_spec \in SpecInputs
    /\ rows = <<>>
    /\ made_filter = PyNone
    /\ copy = PyNone
    /\ call = "none"
    /\ result = PyNone
    /\ data_plane_type = PyNone
    /\ value_given = PyNone
    /\ table = PyNone
    /\ column_name = PyNone
    /\ columns_given = PyNone
    /\ NoServer
    /\ NoRemote

(* check_valid_spec(filter_spec) *)
CheckValidSpec ==
    /\ call # "check_valid_spec"
    /\ call' = "check_valid_spec"
    /\ result' = check_valid_spec(filter_spec)
    /\ UNCHANGED <<columns, filter_spec, rows, made_filter, copy>>
    /\ UNCHANGED <<coerce_vars, table_vars, server_vars, remote_vars>>

NextValidate ==
    \/ CheckValidSpec
    \/ Construct

SpecValidate == InitValidate /\ [][NextValidate]_vars


-----------------------------------------------------------------------------
(* The conversions on their own: _convert_to_type of data_plane_table.py    *)
(* and convert_to_type of data_plane_utils.py, on every type and on values  *)
(* of every class                                                           *)

DATA_PLANE_SCHEMA_TYPES ==
    << DATA_PLANE_STRING, DATA_PLANE_NUMBER, DATA_PLANE_BOOLEAN,
       DATA_PLANE_DATE, DATA_PLANE_DATETIME, DATA_PLANE_TIME_OF_DAY >>

SchemaTypes == { DATA_PLANE_SCHEMA_TYPES[i] : i \in 1..Len(DATA_PLANE_SCHEMA_TYPES) }

StrTrue == PyStr(<<"t", "r", "u", "e">>)
StrOne == PyStr(<<"1">>)
StrOneDotZero == PyStr(<<"1", ".", "0">>)
StrBadDay == PyStr(<<"2", "0", "2", "3", "-", "1", "3", "-", "0", "1">>)

(* The strings given to the conversions: those of the conversion test, and  *)
(* dates, times and datetimes in ISO format and out of it                   *)
CoerceStrings ==
    { StrTrue, PyStr(<<"T", "r", "u", "e">>), PyStr(<<"t">>), StrOne, StrOneDotZero,
      PyStr(<<"F", "a", "l", "s", "e">>), PyStr(<<"f">>), StrFoo, PyStr(<<>>),
      Str02, StrNan, StrTime, StrTimeIso, StrDay1, StrBadDay, StrDateTimeIso }

CoerceValues ==
    CoerceStrings \cup
    { PyNone, PyBool(TRUE), PyBool(FALSE), PyInt(0), PyInt(1), PyInt(2),
      PyFloat(0), PyFloat(1), PyFloat(2), NaN, PyList(<<PyInt(1)>>),
      PyDate(2023, 9, 11), PyDateTime(2023, 9, 12, 1, 11, 0), PyTime(2, 0, 0) }

InitCoerce ==
    /\ data_plane_type \in SchemaTypes
    /\ value_given \in CoerceValues
    /\ call = "none"
    /\ result = PyNone
    /\ columns = <<>>
    /\ filter_spec = PyNone
    /\ rows = <<>>
    /\ made_filter = PyNone
    /\ copy = PyNone
    /\ table = PyNone
    /\ column_name = PyNone
    /\ columns_given = PyNone
    /\ NoServer
    /\ NoRemote

(* _convert_to_type(data_plane_type, value_given) *)
ConvertToTypeOfTable ==
    /\ call' = "_convert_to_type"
    /\ result' = _convert_to_type(data_plane_type, value_given)
    /\ UNCHANGED <<columns, filter_spec, rows, made_filter, copy>>
    /\ UNCHANGED <<coerce_vars, table_vars, server_vars, remote_vars>>

(* convert_to_type(data_plane_type, value_given) *)
ConvertToTypeOfUtils ==
    /\ call' = "convert_to_type"
    /\ result' = convert_to_type(data_plane_type, value_given)
    /\ UNCHANGED <<columns, filter_spec, rows, made_filter, copy>>
    /\ UNCHANGED <<coerce_vars, table_vars, server_vars, remote_vars>>

NextCoerce ==
    \/ ConvertToTypeOfTable
    \/ ConvertToTypeOfUtils

SpecCoerce == InitCoerce /\ [][NextCoerce]_vars


-----------------------------------------------------------------------------
(* Tables: a caller makes a RowTable of a schema and rows and calls its     *)
(* methods.  The rows have an entry for every column, of the class of the   *)
(* column as the valid schema gives it; a number may be a NaN, which is     *)
(* what the conversion of a CSV file puts for a number it cannot read.      *)

table_test_schema ==
    << [name |-> ColName, type |-> DATA_PLANE_STRING],
       [name |-> ColAge, type |-> DATA_PLANE_NUMBER] >>

(* The schema of the table test, and schemas that are not as the class      *)
(* asks: entries that are no dictionaries, entries without a type, and a    *)
(* type that is none of the six                                             *)
TableSchemas ==
    { table_test_schema,
      << PyInt(1), PyInt(2) >>,
      << [name |-> ColName], [name |-> ColAge] >>,
      << [name |-> ColName, type |-> StrFoo],
         [name |-> ColAge, type |-> DATA_PLANE_NUMBER] >> }

TableRows ==
    { << StrFoo, PyInt(2) >>, << StrFoobar, PyInt(1) >>,
      << StrA, PyInt(1) >>, << StrA, NaN >> }

TableRowLists == SeqsUpTo(TableRows, MaxRows)

TableColumnNames == { ColName, ColAge, StrFoo, PyNone }

InitTable ==
    /\ columns \in TableSchemas
    /\ rows \in TableRowLists
    /\ column_name \in TableColumnNames
    /\ columns_given = PyNone
    /\ NoServer
    /\ NoRemote
    /\ table = PyNone
    /\ call = "none"
    /\ result = PyNone
    /\ filter_spec = PyNone
    /\ made_filter = PyNone
    /\ copy = PyNone
    /\ data_plane_type = PyNone
    /\ value_given = PyNone

(* table = RowTable(columns, rows) *)
MakeTable ==
    /\ table = PyNone
    /\ table' = RowTable(columns, rows)
    /\ call' = "RowTable"
    /\ result' = PyNone
    /\ UNCHANGED <<columns, filter_spec, rows, made_filter, copy>>
    /\ UNCHANGED <<coerce_vars, column_name, columns_given, server_vars, remote_vars>>

(* table.column_names() *)
ColumnNamesOfTable ==
    /\ Constructed(table)
    /\ call' = "column_names"
    /\ result' = column_names(table)
    /\ UNCHANGED <<columns, filter_spec, rows, made_filter, copy>>
    /\ UNCHANGED <<coerce_vars, table_vars, server_vars, remote_vars>>

(* table.all_values(column_name) *)
AllValues ==
    /\ Constructed(table)
    /\ call' = "all_values"
    /\ \E listed \in ListsOfSet(ColumnValues(table, column_name)) :
          result' = all_values(table, column_name, listed)
    /\ UNCHANGED <<columns, filter_spec, rows, made_filter, copy>>
    /\ UNCHANGED <<coerce_vars, table_vars, server_vars, remote_vars>>

(* table.range_spec(column_name) *)
RangeSpec ==
    /\ Constructed(table)
    /\ call' = "range_spec"
    /\ \E listed \in ListsOfSet(ColumnValues(table, column_name)) :
          result' = range_spec(table, column_name, listed)
    /\ UNCHANGED <<columns, filter_spec, rows, made_filter, copy>>
    /\ UNCHANGED <<coerce_vars, table_vars, server_vars, remote_vars>>

(* table.numeric_spec(column_name) *)
NumericSpec ==
    /\ Constructed(table)
    /\ call' = "numeric_spec"
    /\ \E listed \in ListsOfSet(ColumnValues(table, column_name)) :
          result' = numeric_spec(table, column_name, listed)
    /\ UNCHANGED <<columns, filter_spec, rows, made_filter, copy>>
    /\ UNCHANGED <<coerce_vars, table_vars, server_vars, remote_vars>>
(* The row source of the table changes: get_rows() then returns one more    *)
(* row, as after table.get_rows = lambda: [...] of the table test           *)
SetGetRows ==
    /\ Constructed(table)
    /\ Len(table.rows) < MaxRows
    /\ \E row \in TableRows : table' = [table EXCEPT !.rows = Append(@, row)]
    /\ call' = "set_get_rows"
    /\ result' = PyNone
    /\ UNCHANGED <<columns, filter_spec, rows, made_filter, copy>>
    /\ UNCHANGED <<coerce_vars, column_name, columns_given, server_vars, remote_vars>>

NextTable ==
    \/ MakeTable
    \/ ColumnNamesOfTable
    \/ AllValues
    \/ RangeSpec
    \/ NumericSpec
    \/ SetGetRows

SpecTable == InitTable /\ [][NextTable]_vars

-----------------------------------------------------------------------------
(* Filtered rows: a caller makes a RowTable and calls get_filtered_rows     *)
(* with a filter spec, or None for no filter, and a list of column names,   *)
(* or None.                                                                 *)

TableInRangeSpec ==
    [operator |-> OpIN_RANGE, column |-> ColAge, max_val |-> PyInt(1), min_val |-> PyInt(1)]

(* No filter, filters on the columns of the table test, a filter on a name  *)
(* that is no column, and a filter whose bounds are no numbers              *)
TableFilterSpecs ==
    { PyNone,
      [operator |-> OpIN_LIST, column |-> ColName, values |-> PyList(<<StrFoo>>)],
      TableInRangeSpec,
      [operator |-> OpNONE, arguments |-> PyList(<<TableInRangeSpec>>)],
      [operator |-> OpIN_LIST, column |-> StrFoo, values |-> PyList(<<PyInt(1)>>)],
      [operator |-> OpIN_RANGE, column |-> ColAge, max_val |-> StrFoo, min_val |-> StrA] }

(* The columns asked for: none, all, one, the two in the other order than   *)
(* the schema's, and names that are no columns                              *)
ColumnLists ==
    { PyNone, PyList(<<>>), PyList(<<ColAge>>), PyList(<<ColAge, ColName>>),
      PyList(<<ColName, StrFoo>>), PyList(<<StrFoo>>) }

InitRows ==
    /\ columns \in TableSchemas
    /\ rows \in TableRowLists
    /\ filter_spec \in TableFilterSpecs
    /\ columns_given \in ColumnLists
    /\ column_name = PyNone
    /\ table = PyNone
    /\ call = "none"
    /\ result = PyNone
    /\ made_filter = PyNone
    /\ copy = PyNone
    /\ data_plane_type = PyNone
    /\ value_given = PyNone
    /\ NoServer
    /\ NoRemote

(* table.get_filtered_rows(filter_spec, columns_given) *)
GetFilteredRows ==
    /\ Constructed(table)
    /\ call' = "get_filtered_rows"
    /\ result' = get_filtered_rows(table, filter_spec, columns_given)
    /\ UNCHANGED <<columns, filter_spec, rows, made_filter, copy>>
    /\ UNCHANGED <<coerce_vars, table_vars, server_vars, remote_vars>>

NextRows ==
    \/ MakeTable
    \/ GetFilteredRows
    \/ SetGetRows

SpecRows == InitRows /\ [][NextRows]_vars

-----------------------------------------------------------------------------
(* The values of a filter: a caller constructs a filter and asks for all    *)
(* the values that the filter holds for a column.                           *)

(* Names of columns of the schema, a name that is no column, and values     *)
(* that are no names                                                        *)
FilterColumnNames == { ColName, ColAge, ColDate, StrFoo, PyNone, PyInt(1) }

InitValues ==
    /\ columns = schema
    /\ filter_spec \in FilterSpecs
    /\ rows = <<>>
    /\ column_name \in FilterColumnNames
    /\ made_filter = PyNone
    /\ copy = PyNone
    /\ call = "none"
    /\ result = PyNone
    /\ data_plane_type = PyNone
    /\ value_given = PyNone
    /\ table = PyNone
    /\ columns_given = PyNone
    /\ NoServer
    /\ NoRemote

(* made_filter.get_all_column_values_in_filter(column_name) *)
GetAllColumnValuesInFilter ==
    /\ Constructed(made_filter)
    /\ call' = "get_all_column_values_in_filter"
    /\ \E same_object \in BOOLEAN :
          result' = get_all_column_values_in_filter(made_filter, column_name, same_object)
    /\ UNCHANGED <<columns, filter_spec, rows, made_filter, copy>>
    /\ UNCHANGED <<coerce_vars, table_vars, server_vars, remote_vars>>

NextValues ==
    \/ Construct
    \/ GetAllColumnValuesInFilter

SpecValues == InitValues /\ [][NextValues]_vars

-----------------------------------------------------------------------------
(* Compound filters: a caller constructs a filter of a compound spec and    *)
(* calls filter_index on a list of rows.                                    *)

InitCompound ==
    /\ columns = schema
    /\ filter_spec \in CompoundSpecs \cup NestedSpecs
    /\ rows \in RowLists
    /\ made_filter = PyNone
    /\ copy = PyNone
    /\ call = "none"
    /\ result = PyNone
    /\ data_plane_type = PyNone
    /\ value_given = PyNone
    /\ table = PyNone
    /\ column_name = PyNone
    /\ columns_given = PyNone
    /\ NoServer
    /\ NoRemote

NextCompound ==
    \/ Construct
    \/ FilterIndex

SpecCompound == InitCompound /\ [][NextCompound]_vars

-----------------------------------------------------------------------------
(* Requests in any order: a table is made of a schema and rows, a filter is *)
(* compiled from a specification and the same schema, and the methods of    *)
(* both are called one after the other, in any order and any number of      *)
(* times.                                                                   *)

InitRequests ==
    /\ columns = table_test_schema
    /\ rows \in TableRowLists
    /\ filter_spec \in TableFilterSpecs
    /\ columns_given \in { PyNone, PyList(<<ColAge>>) }
    /\ column_name \in { ColName, ColAge }
    /\ table = PyNone
    /\ made_filter = PyNone
    /\ copy = PyNone
    /\ call = "none"
    /\ result = PyNone
    /\ data_plane_type = PyNone
    /\ value_given = PyNone
    /\ NoServer
    /\ NoRemote

NextRequests ==
    \/ Construct
    \/ Filter
    \/ FilterIndex
    \/ ToFilterSpec
    \/ GetAllColumnValuesInFilter
    \/ MakeTable
    \/ AllValues
    \/ RangeSpec
    \/ GetFilteredRows

SpecRequests == InitRequests /\ [][NextRequests]_vars

-----------------------------------------------------------------------------
(* The server: tables are registered, and requests come with headers and    *)
(* arguments.  The tables, their names and the headers that the protected   *)
(* one requires are those of the server test.                               *)

NameUnprotected == PyStr(<<"u", "n", "p", "r", "o", "t", "e", "c", "t", "e", "d">>)
NameProtected == PyStr(<<"p", "r", "o", "t", "e", "c", "t", "e", "d">>)
StrTest == PyStr(<<"t", "e", "s", "t">>)

ServerTableNames == { NameUnprotected, NameProtected }

unprotected == RowTable(table_test_schema, << << StrFoo, PyInt(2) >>, << StrA, PyInt(1) >> >>)
protected == RowTable(table_test_schema, << << StrFoobar, PyInt(1) >> >>)

(* What a caller gives as the table: a table, None, or 1 as the test does *)
ServerTables == { unprotected, protected, PyNone, PyInt(1) }

headers == << [variable |-> StrTest, value |-> StrFoo] >>

(* What a caller gives as the required headers: nothing, no header, the     *)
(* headers of the test, and headers without a variable or without a value   *)
RequiredHeaders ==
    { Omitted, PyList(<<>>), PyList(headers),
      PyList(<< [variable |-> StrTest] >>),
      PyList(<< [variable |-> StrTest, value |-> StrFoo], [value |-> StrFoo] >>) }

InitServer ==
    /\ table_servers = <<>>
    /\ request = PyNone
    /\ call = "none"
    /\ result = PyNone
    /\ columns = PyNone
    /\ filter_spec = PyNone
    /\ rows = <<>>
    /\ made_filter = PyNone
    /\ copy = PyNone
    /\ data_plane_type = PyNone
    /\ value_given = PyNone
    /\ table = PyNone
    /\ column_name = PyNone
    /\ columns_given = PyNone
    /\ NoRemote

(* add_data_plane_table(table_name, table, required_headers) *)
AddDataPlaneTable ==
    \E table_name \in ServerTableNames, table_given \in ServerTables,
       required_headers \in RequiredHeaders :
        LET added == add_data_plane_table(table_servers, table_name, table_given,
                                          required_headers)
        IN  /\ call' = "add_data_plane_table"
            /\ request' = [table_name |-> table_name, table |-> table_given,
                           required_headers |-> required_headers]
            /\ result' = added.result
            /\ table_servers' = added.table_servers
            /\ UNCHANGED <<columns, filter_spec, rows, made_filter, copy>>
            /\ UNCHANGED <<coerce_vars, table_vars, remote_vars>>

(* The headers of a request: none or one of each name.  The request names   *)
(* a table of the registry, a table that is not there, or none; it brings   *)
(* the value that the protected table requires, another value, or none.     *)
Header(name, value) == IF value = PyNone THEN <<>> ELSE (name :> value)

PlainHeaders ==
    { Header(HeaderTableName, table_name) @@ Header(StrTest, test) :
        table_name \in ServerTableNames \cup {StrFoo, PyNone},
        test \in {StrFoo, StrA, PyNone} }

(* The Filter-Spec header: none, a text that is no JSON, and the JSON of    *)
(* null, of a number and of filter specifications: one that the table can   *)
(* evaluate, one of a column that the table has not, and one whose bounds   *)
(* are no numbers                                                           *)
FilterSpecTexts ==
    { PyNone, StrFoo, JsonText(PyNone), JsonText(PyInt(1)),
      JsonText([operator |-> OpIN_LIST, column |-> ColName, values |-> PyList(<<StrFoo>>)]),
      JsonText([operator |-> OpIN_LIST, column |-> StrFoo, values |-> PyList(<<PyInt(1)>>)]),
      JsonText([operator |-> OpIN_RANGE, column |-> ColAge,
                max_val |-> StrFoo, min_val |-> StrA]) }

ColumnArgs ==
    { <<>>, [column_name |-> ColAge], [column_name |-> ColName], [column_name |-> StrFoo] }

(* A request is handled by its route: the response is the JSON that the     *)
(* route returns, the abort that ends it, or the exception that nothing     *)
(* catches.  No route changes the registry.                                 *)
Handle(route, asked) ==
    /\ call' = route
    /\ request' = asked
    /\ UNCHANGED table_servers
    /\ UNCHANGED <<columns, filter_spec, rows, made_filter, copy>>
    /\ UNCHANGED <<coerce_vars, table_vars, remote_vars>>

GetTables ==
    \E h \in PlainHeaders :
        /\ Handle("get_tables", [headers |-> h, args |-> <<>>])
        /\ result' = get_tables(table_servers, request')

GetFilteredRowsRoute ==
    \E h \in PlainHeaders, text \in FilterSpecTexts :
        /\ Handle("get_filtered_rows", [headers |-> h @@ Header(HeaderFilterSpec, text),
                                        args |-> <<>>])
        /\ result' = get_filtered_rows_route(table_servers, request')

GetAllValues ==
    \E h \in PlainHeaders, a \in ColumnArgs :
        /\ Handle("get_all_values", [headers |-> h, args |-> a])
        /\ result' = get_all_values(table_servers, request')

GetNumericSpec ==
    \E h \in PlainHeaders, a \in ColumnArgs :
        /\ Handle("get_numeric_spec", [headers |-> h, args |-> a])
        /\ result' = get_numeric_spec(table_servers, request')

GetTableSpec ==
    \E h \in PlainHeaders :
        /\ Handle("get_table_spec", [headers |-> h, args |-> <<>>])
        /\ result' = get_table_spec(table_servers, request')
NextServer ==
    \/ AddDataPlaneTable
    \/ GetTables
    \/ GetFilteredRowsRoute
    \/ GetAllValues
    \/ GetNumericSpec
    \/ GetTableSpec

SpecServer == InitServer /\ [][NextServer]_vars


-----------------------------------------------------------------------------
(* Properties of filter_index and filter *)

(* The filter self and the filters nested in it at any depth *)
RECURSIVE Nodes(_)
Nodes(self) ==
    IF self.operator \in CompoundOperators
    THEN {self} \cup UNION {Nodes(self.arguments[k]) : k \in 1..Len(self.arguments)}
    ELSE {self}

RowIndices == 0..(Len(rows) - 1)

(* The index set a node's k-th argument returns on the rows *)
ArgumentResult(node, k) == filter_index(node.arguments[k], rows)

(* The entry of row i in the column of a primitive filter *)
ColumnValue(self, i) == rows[i + 1][self.column_index + 1]

(* C1: filter_index of an ALL filter returns exactly the intersection of    *)
(* the index sets its arguments return, and every index of the rows when    *)
(* it has no argument.  It holds of the call made on made_filter and of     *)
(* every ALL filter nested in it.                                           *)
C1_AllIsIntersection ==
    call = "filter_index" =>
        /\ made_filter.operator = OpALL =>
              result = {i \in RowIndices :
                           \A k \in 1..Len(made_filter.arguments) :
                               i \in ArgumentResult(made_filter, k)}
        /\ \A node \in Nodes(made_filter) :
              node.operator = OpALL =>
                 /\ filter_index(node, rows) =
                       {i \in RowIndices : \A k \in 1..Len(node.arguments) :
                                              i \in ArgumentResult(node, k)}
                 /\ node.arguments = <<>> => filter_index(node, rows) = RowIndices

(* An ALL of two arguments that return different sets returned a set that   *)
(* is neither empty nor all of the rows                                     *)
C1_Witness ==
    /\ call = "filter_index"
    /\ made_filter.operator = OpALL
    /\ Len(made_filter.arguments) = 2
    /\ ArgumentResult(made_filter, 1) # ArgumentResult(made_filter, 2)
    /\ result # {}
    /\ result # RowIndices

(* C2: filter_index of an ANY filter returns exactly the union of the index *)
(* sets its arguments return, and the empty set when it has no argument.    *)
C2_AnyIsUnion ==
    call = "filter_index" =>
        /\ made_filter.operator = OpANY =>
              result = {i \in RowIndices :
                           \E k \in 1..Len(made_filter.arguments) :
                               i \in ArgumentResult(made_filter, k)}
        /\ \A node \in Nodes(made_filter) :
              node.operator = OpANY =>
                 /\ filter_index(node, rows) =
                       {i \in RowIndices : \E k \in 1..Len(node.arguments) :
                                              i \in ArgumentResult(node, k)}
                 /\ node.arguments = <<>> => filter_index(node, rows) = {}

(* An ANY of two arguments returned more than either argument did *)
C2_Witness ==
    /\ call = "filter_index"
    /\ made_filter.operator = OpANY
    /\ Len(made_filter.arguments) = 2
    /\ result # ArgumentResult(made_filter, 1)
    /\ result # ArgumentResult(made_filter, 2)

(* C3: filter_index of a NONE filter returns the indices of the rows minus  *)
(* the union of the index sets its arguments return, for any number of      *)
(* arguments, primitive or compound, and every index when it has none.      *)
C3_NoneIsComplementOfUnion ==
    call = "filter_index" =>
        /\ made_filter.operator = OpNONE =>
              result = RowIndices \
                          UNION {ArgumentResult(made_filter, k) :
                                    k \in 1..Len(made_filter.arguments)}
        /\ \A node \in Nodes(made_filter) :
              node.operator = OpNONE =>
                 /\ filter_index(node, rows) =
                       RowIndices \ UNION {ArgumentResult(node, k) :
                                              k \in 1..Len(node.arguments)}
                 /\ node.arguments = <<>> => filter_index(node, rows) = RowIndices

(* A NONE of two arguments that return different nonempty sets *)
C3_Witness ==
    /\ call = "filter_index"
    /\ made_filter.operator = OpNONE
    /\ Len(made_filter.arguments) = 2
    /\ ArgumentResult(made_filter, 1) # {}
    /\ ArgumentResult(made_filter, 2) # {}
    /\ ArgumentResult(made_filter, 1) # ArgumentResult(made_filter, 2)
    /\ result = RowIndices \ (ArgumentResult(made_filter, 1)
                              \cup ArgumentResult(made_filter, 2))

(* C4: filter_index of an IN_RANGE filter returns exactly the indices i     *)
(* with min_val <= rows[i][column] <= max_val; a row whose value equals a   *)
(* bound is matched.                                                        *)
C4_InRangeInclusive ==
    (call = "filter_index" /\ made_filter.operator = OpIN_RANGE) =>
        /\ result = {i \in RowIndices :
                        /\ PyLe(made_filter.min_val, ColumnValue(made_filter, i))
                        /\ PyLe(ColumnValue(made_filter, i), made_filter.max_val)}
        /\ \A i \in RowIndices :
              (/\ PyLe(made_filter.min_val, made_filter.max_val)
               /\ \/ PyEq(ColumnValue(made_filter, i), made_filter.min_val)
                  \/ PyEq(ColumnValue(made_filter, i), made_filter.max_val))
              => i \in result

(* A row at the upper bound and a row at the lower bound were both matched *)
C4_Witness ==
    /\ call = "filter_index"
    /\ made_filter.operator = OpIN_RANGE
    /\ ~PyEq(made_filter.min_val, made_filter.max_val)
    /\ \E i \in result : PyEq(ColumnValue(made_filter, i), made_filter.max_val)
    /\ \E i \in result : PyEq(ColumnValue(made_filter, i), made_filter.min_val)

(* The IN_RANGE spec with its two bounds exchanged *)
Exchanged(spec) ==
    [spec EXCEPT !.max_val = spec.min_val, !.min_val = spec.max_val]

(* The spec is an IN_RANGE whose min_val is greater than its max_val *)
SwappedRange(spec) ==
    /\ spec.operator = OpIN_RANGE
    /\ Orderable(spec.min_val, spec.max_val)
    /\ PyGt(spec.min_val, spec.max_val)

(* The filter made from an IN_RANGE spec returns, on every row list, what   *)
(* the filter made from the spec with its bounds exchanged returns          *)
EvaluatesAsExchanged(self, spec) ==
    /\ Constructed(DataPlaneFilter(Exchanged(spec), columns))
    /\ \A rs \in RowLists :
          filter_index(self, rs) =
             filter_index(DataPlaneFilter(Exchanged(spec), columns), rs)

(* The column of a primitive spec, and the value a bound or a list value of *)
(* the spec is converted to                                                 *)
ColumnOf(spec) ==
    CHOOSE i \in 1..Len(columns) : PyEq(columns[i].name, spec.column)

Coerced(spec, value) == _convert_to_type(columns[ColumnOf(spec)].type, value)

(* The value is one of the column's type: not an exception and not None *)
IsColumnValue(value) == ~IsRaise(value) /\ value # PyNone

(* C5 as stated: compiling an IN_RANGE spec whose min_val is greater than   *)
(* its max_val never signals an error, the filter holds min_val <= max_val, *)
(* and it evaluates on every row list as the filter of the spec with the    *)
(* bounds exchanged.                                                        *)
C5_SwappedNeverFails ==
    (call = "__init__" /\ SwappedRange(filter_spec)) =>
        /\ Constructed(made_filter)
        /\ PyLe(made_filter.min_val, made_filter.max_val)
        /\ EvaluatesAsExchanged(made_filter, filter_spec)

(* C5 amended: compiling an IN_RANGE spec whose min_val is greater than its *)
(* max_val, and whose bounds both convert to values of the column's type    *)
(* that can be compared with each other, signals no error; the filter holds *)
(* min_val <= max_val unless a bound converted to NaN, and it evaluates on  *)
(* every row list as the filter of the spec with the bounds exchanged.      *)
C5_SwappedConvertibleNormalised ==
    (/\ call = "__init__"
     /\ SwappedRange(filter_spec)
     /\ IsColumnValue(Coerced(filter_spec, filter_spec.max_val))
     /\ IsColumnValue(Coerced(filter_spec, filter_spec.min_val))
     /\ Orderable(Coerced(filter_spec, filter_spec.max_val),
                  Coerced(filter_spec, filter_spec.min_val))) =>
        /\ Constructed(made_filter)
        /\ (made_filter.min_val # NaN /\ made_filter.max_val # NaN)
              => PyLe(made_filter.min_val, made_filter.max_val)
        /\ EvaluatesAsExchanged(made_filter, filter_spec)

(* A spec with min_val 2 and max_val 1 was compiled: the filter holds them  *)
(* exchanged and matches a row                                              *)
C5_Witness ==
    /\ call = "__init__"
    /\ SwappedRange(filter_spec)
    /\ Constructed(made_filter)
    /\ PyEq(made_filter.min_val, Coerced(filter_spec, filter_spec.max_val))
    /\ PyEq(made_filter.max_val, Coerced(filter_spec, filter_spec.min_val))
    /\ PyLt(made_filter.min_val, made_filter.max_val)
    /\ filter_index(made_filter, rows) # {}

(* s starts with p *)
StartsWith(s, p) == Len(s) >= Len(p) /\ SubSeq(s, 1, Len(p)) = p

(* C6: filter_index of a REGEX_MATCH filter returns exactly the indices of  *)
(* the rows whose whole string is matched by the expression: a match that   *)
(* starts at the first character ends after the last one.  With expression  *)
(* "foo" it returns the rows whose value is "foo" and no row whose value    *)
(* is "foobar"; with "foo.*" it returns the rows whose value starts "foo".  *)
C6_RegexMatchesInFull ==
    (call = "filter_index" /\ made_filter.operator = OpREGEX_MATCH) =>
        /\ result = {i \in RowIndices :
                        Len(ColumnValue(made_filter, i).v) \in
                           ReEnds(ReItems(filter_spec.expression.v, 1), 1,
                                  ColumnValue(made_filter, i).v, 0)}
        /\ filter_spec.expression = StrFoo =>
              /\ result = {i \in RowIndices : ColumnValue(made_filter, i) = StrFoo}
              /\ \A i \in RowIndices :
                    ColumnValue(made_filter, i) = StrFoobar => i \notin result
        /\ filter_spec.expression = PyStr(<<"f", "o", "o", ".", "*">>) =>
              result = {i \in RowIndices :
                           StartsWith(ColumnValue(made_filter, i).v, StrFoo.v)}

(* Expression "foo" on a row with "foo" and a row with "foobar" returned    *)
(* the first only                                                           *)
C6_Witness ==
    /\ call = "filter_index"
    /\ made_filter.operator = OpREGEX_MATCH
    /\ made_filter.expression = StrFoo
    /\ \E i, j \in RowIndices :
          /\ ColumnValue(made_filter, i) = StrFoo
          /\ ColumnValue(made_filter, j) = StrFoobar
          /\ result = {i}

(* C7: filter_index of an IN_LIST filter returns exactly the indices of the *)
(* rows whose value in the column equals one of the spec's values converted *)
(* to the column's type; a spec with no values matches no row.              *)
C7_InListAfterCoercion ==
    (call = "filter_index" /\ made_filter.operator = OpIN_LIST) =>
        /\ result = {i \in RowIndices :
                        \E k \in 1..Len(filter_spec.values.v) :
                            PyEq(ColumnValue(made_filter, i),
                                 Coerced(filter_spec, filter_spec.values.v[k]))}
        /\ filter_spec.values.v = <<>> => result = {}

(* A row was matched by a value that equals the row's only once converted *)
C7_Witness ==
    /\ call = "filter_index"
    /\ made_filter.operator = OpIN_LIST
    /\ \E i \in result :
          /\ \A k \in 1..Len(filter_spec.values.v) :
                ~PyEq(ColumnValue(made_filter, i), filter_spec.values.v[k])
          /\ \E k \in 1..Len(filter_spec.values.v) :
                PyEq(ColumnValue(made_filter, i),
                     Coerced(filter_spec, filter_spec.values.v[k]))

(* C8: filter returns the rows at the indices filter_index returns, in      *)
(* increasing order of index: as many rows as there are indices, equal rows *)
(* once for each of their indices.                                          *)
C8_FilterSelectsInOrder ==
    call = "filter" =>
        LET indices == filter_index(made_filter, rows)
        IN  /\ Len(result) = Cardinality(indices)
            /\ \E f \in [1..Len(result) -> indices] :
                  /\ \A k \in 1..(Len(result) - 1) : f[k] < f[k + 1]
                  /\ \A k \in 1..Len(result) : result[k] = rows[f[k] + 1]

(* Two equal rows both pass, and both were returned *)
C8_Witness ==
    /\ call = "filter"
    /\ Len(rows) = 2
    /\ rows[1] = rows[2]
    /\ filter_index(made_filter, rows) = {0, 1}
    /\ result = rows

(* C9 as stated: to_filter_spec() of a compiled filter compiles without     *)
(* error, and the filter compiled from it returns on every row list the     *)
(* index set the first filter returns.                                      *)
C9_RoundTrip ==
    /\ call = "to_filter_spec" => ~IsRaise(result)
    /\ call = "copy.__init__" =>
          /\ Constructed(copy)
          /\ \A rs \in RowLists :
                filter_index(copy, rs) = filter_index(made_filter, rs)
    /\ call = "copy.filter_index" => result = filter_index(made_filter, rows)

(* a == b for two values of a spec, and for two specs of the same shape *)
RECURSIVE PySpecEq(_, _)
PySpecEq(a, b) ==
    IF a.operator # b.operator THEN FALSE
    ELSE IF a.operator \in CompoundOperators
    THEN /\ Len(a.arguments.v) = Len(b.arguments.v)
         /\ \A k \in 1..Len(a.arguments.v) :
               PySpecEq(a.arguments.v[k], b.arguments.v[k])
    ELSE /\ PyEq(a.column, b.column)
         /\ a.operator = OpIN_LIST =>
               /\ Len(a.values.v) = Len(b.values.v)
               /\ \A k \in 1..Len(a.values.v) : PyEq(a.values.v[k], b.values.v[k])
         /\ a.operator = OpIN_RANGE =>
               PyEq(a.max_val, b.max_val) /\ PyEq(a.min_val, b.min_val)
         /\ a.operator = OpREGEX_MATCH => PyEq(a.expression, b.expression)

CanonicalValue(spec, value) ==
    LET type == columns[ColumnOf(spec)].type
    IN  IF type = DATA_PLANE_STRING THEN IsStr(value)
        ELSE IF type = DATA_PLANE_NUMBER THEN IsNumeric(value)
        ELSE IF type = DATA_PLANE_BOOLEAN THEN IsBool(value)
        ELSE /\ IsStr(value)
             /\ IsColumnValue(Coerced(spec, value))
             /\ isoformat(Coerced(spec, value)) = value

(* Every value and bound of the spec is canonical, and the bounds of every  *)
(* IN_RANGE are in order                                                    *)
RECURSIVE CanonicalSpec(_)
CanonicalSpec(spec) ==
    IF spec.operator \in CompoundOperators
    THEN \A k \in 1..Len(spec.arguments.v) : CanonicalSpec(spec.arguments.v[k])
    ELSE IF spec.operator = OpIN_LIST
    THEN \A k \in 1..Len(spec.values.v) : CanonicalValue(spec, spec.values.v[k])
    ELSE IF spec.operator = OpIN_RANGE
    THEN /\ CanonicalValue(spec, spec.max_val)
         /\ CanonicalValue(spec, spec.min_val)
         /\ PyLe(Coerced(spec, spec.min_val), Coerced(spec, spec.max_val))
    ELSE TRUE

-----------------------------------------------------------------------------
(* Properties of check_valid_spec and of the constructor's checks *)

IsInvalidData(x) == IsRaise(x) /\ x.raised = "InvalidDataException"

(* The fields an operator requires *)
RequiredFields(operator) ==
    CASE operator \in {OpALL, OpANY, OpNONE} -> {"arguments"}
      [] operator = OpIN_LIST -> {"column", "values"}
      [] operator = OpIN_RANGE -> {"column", "max_val", "min_val"}
      [] operator = OpREGEX_MATCH -> {"column", "expression"}

HasOperator(spec) == IsDict(spec) /\ "operator" \in DOMAIN spec

HasKnownOperator(spec) ==
    /\ HasOperator(spec)
    /\ IsStr(spec.operator)
    /\ spec.operator \in {OpALL, OpANY, OpNONE, OpIN_LIST, OpIN_RANGE, OpREGEX_MATCH}

HasFields(spec) ==
    HasKnownOperator(spec) /\ RequiredFields(spec.operator) \subseteq DOMAIN spec

IsCompoundSpec(spec) ==
    HasFields(spec) /\ spec.operator \in {OpALL, OpANY, OpNONE}

(* C11: check_valid_spec raises InvalidDataException for a spec that is no  *)
(* dictionary, has no operator, has an operator that is no string or none   *)
(* of the six, lacks a field its operator requires, or is an IN_LIST whose  *)
(* values is no list.  The checks come in this order: the exception names   *)
(* the first of them that fails, so an unknown operator is reported as      *)
(* such whatever fields the spec has.  Fields beyond the required ones are  *)
(* no error.                                                                *)
C11_ValidationChecksInOrder ==
    call = "check_valid_spec" =>
        /\ ~IsDict(filter_spec) =>
              result = InvalidData("filter_spec must be a dictionary")
        /\ (IsDict(filter_spec) /\ ~HasOperator(filter_spec)) =>
              result = InvalidData("There is no operator")
        /\ (HasOperator(filter_spec) /\ ~IsStr(filter_spec.operator)) =>
              result = InvalidData("operator is not a string")
        /\ (HasOperator(filter_spec) /\ IsStr(filter_spec.operator)
                /\ ~HasKnownOperator(filter_spec)) =>
              result = InvalidData("is not a valid operator")
        /\ (HasKnownOperator(filter_spec) /\ ~HasFields(filter_spec)) =>
              result = InvalidData("is missing required fields")
        /\ (HasFields(filter_spec) /\ filter_spec.operator = OpIN_LIST) =>
              IF IsList(filter_spec.values) THEN result = PyNone
              ELSE result = InvalidData("The Values argument to IN_LIST must be a list")
        /\ (result = InvalidData("is missing required fields")
                /\ ~IsCompoundSpec(filter_spec)) =>
              /\ HasKnownOperator(filter_spec)
              /\ RequiredFields(filter_spec.operator) \ DOMAIN filter_spec # {}

(* A spec with an unknown operator and none of the fields was rejected for  *)
(* its operator                                                             *)
C11_Witness ==
    /\ call = "check_valid_spec"
    /\ filter_spec = [operator |-> StrFoo]
    /\ result = InvalidData("is not a valid operator")

(* A spec with every field, more than IN_LIST requires, was accepted *)
C11_WitnessExtraFields ==
    /\ call = "check_valid_spec"
    /\ HasFields(filter_spec)
    /\ filter_spec.operator = OpIN_LIST
    /\ DOMAIN filter_spec = SpecFields \cup {"operator"}
    /\ result = PyNone

(* The spec passes every check the filter spec format asks for *)
RECURSIVE WellFormedSpec(_)
WellFormedSpec(spec) ==
    /\ HasFields(spec)
    /\ spec.operator \in {OpALL, OpANY, OpNONE} =>
          /\ IsList(spec.arguments)
          /\ \A k \in 1..Len(spec.arguments.v) : WellFormedSpec(spec.arguments.v[k])
    /\ spec.operator = OpIN_LIST => IsList(spec.values)
    /\ spec.operator = OpREGEX_MATCH => ~IsRaise(re_compile(spec.expression))
    /\ spec.operator = OpIN_RANGE => Orderable(spec.max_val, spec.min_val)

(* C12 as stated: check_valid_spec on an ALL, ANY or NONE spec raises       *)
(* InvalidDataException if arguments is no list or a spec nested in it at   *)
(* any depth is invalid, and accepts the spec if arguments is a list of     *)
(* valid specs.                                                             *)
C12_ValidationIsRecursive ==
    (call = "check_valid_spec" /\ IsCompoundSpec(filter_spec)) =>
        IF WellFormedSpec(filter_spec) THEN result = PyNone
        ELSE IsInvalidData(result)

IsRegexSpec(spec) == HasFields(spec) /\ spec.operator = OpREGEX_MATCH

(* C13 as stated: check_valid_spec, and so the constructor, raise           *)
(* InvalidDataException and nothing else for a REGEX_MATCH spec whose       *)
(* expression does not compile, be it no string or a malformed pattern.     *)
C13_BadRegexIsInvalidData ==
    (IsRegexSpec(filter_spec) /\ IsRaise(re_compile(filter_spec.expression))) =>
        /\ call = "check_valid_spec" => IsInvalidData(result)
        /\ call = "__init__" => IsInvalidData(made_filter)

(* The classes of values Python orders: numbers among themselves (bool,     *)
(* int, float), strings among themselves                                    *)
IsNumberValue(x) == TypeOf(x) \in {"bool", "int", "float", "nan"}

IsRangeSpec(spec) == HasFields(spec) /\ spec.operator = OpIN_RANGE

BadSchema(schema_given) ==
    \E i \in 1..Len(schema_given) : ~_valid_column_spec(schema_given[i])

(* Some primitive node of the spec, at any depth, has the property: the     *)
(* name of its column is the name of no column of the schema (types = {}),  *)
(* or it is a REGEX_MATCH node and its column is of none of the types       *)
RECURSIVE SomeNodeOffSchema(_, _, _)
SomeNodeOffSchema(spec, schema_given, types) ==
    /\ HasFields(spec)
    /\ IF spec.operator \in {OpALL, OpANY, OpNONE}
       THEN /\ IsList(spec.arguments)
            /\ \E k \in 1..Len(spec.arguments.v) :
                  SomeNodeOffSchema(spec.arguments.v[k], schema_given, types)
       ELSE LET named == { i \in 1..Len(schema_given) :
                             PyEq(schema_given[i].name, spec.column) }
            IN  IF types = {} THEN named = {}
                ELSE /\ spec.operator = OpREGEX_MATCH
                     /\ named # {}
                     /\ \A i \in named : \E j \in named :
                           j <= i /\ schema_given[j].type \notin types

(* Every primitive node of the filter has the index (from 0) of the first   *)
(* column that bears the name its spec gives, and the name and type of that *)
(* column; the column of a REGEX_MATCH node is a string column.             *)
RECURSIVE BoundToColumns(_, _, _)
BoundToColumns(self, spec, schema_given) ==
    IF self.operator \in {OpALL, OpANY, OpNONE}
    THEN /\ Len(self.arguments) = Len(spec.arguments.v)
         /\ \A k \in 1..Len(self.arguments) :
               BoundToColumns(self.arguments[k], spec.arguments.v[k], schema_given)
    ELSE /\ self.column_index \in 0..(Len(schema_given) - 1)
         /\ PyEq(schema_given[self.column_index + 1].name, spec.column)
         /\ \A j \in 1..self.column_index : ~PyEq(schema_given[j].name, spec.column)
         /\ self.column_name = schema_given[self.column_index + 1].name
         /\ self.column_type = schema_given[self.column_index + 1].type
         /\ self.operator = OpREGEX_MATCH => self.column_type = DATA_PLANE_STRING

(* C15 as stated: the constructor raises InvalidDataException if an entry   *)
(* of the schema is no dictionary with name and type, if a primitive node   *)
(* at any depth names a column the schema has not, or if a REGEX_MATCH node *)
(* names a column that is no string column; every filter it constructs has  *)
(* each primitive node bound to the position of its column and each         *)
(* REGEX_MATCH node to a string column.                                     *)
C15_ColumnBinding ==
    call = "__init__" =>
        /\ BadSchema(columns) => IsInvalidData(made_filter)
        /\ (~BadSchema(columns) /\ SomeNodeOffSchema(filter_spec, columns, {})) =>
              IsInvalidData(made_filter)
        /\ (~BadSchema(columns)
                /\ SomeNodeOffSchema(filter_spec, columns, {DATA_PLANE_STRING})) =>
              IsInvalidData(made_filter)
        /\ Constructed(made_filter) => BoundToColumns(made_filter, filter_spec, columns)

-----------------------------------------------------------------------------
(* Properties of the conversions *)

Converted == call \in {"_convert_to_type", "convert_to_type"}

(* isinstance of the Python classes of a schema type *)
IsOfType(data_plane_type_given, x) ==
    IF data_plane_type_given = DATA_PLANE_STRING THEN IsStr(x)
    ELSE IF data_plane_type_given = DATA_PLANE_NUMBER THEN IsNumeric(x)
    ELSE IF data_plane_type_given = DATA_PLANE_BOOLEAN THEN IsBool(x)
    ELSE IF data_plane_type_given = DATA_PLANE_DATE THEN TypeOf(x) = "date"
    ELSE IF data_plane_type_given = DATA_PLANE_DATETIME THEN TypeOf(x) = "datetime"
    ELSE TypeOf(x) = "time"

(* C16 as stated: a conversion returns a value of the type it was asked for *)
(* or raises InvalidDataException; it returns no value of another type,     *)
(* such as None, and raises no other exception.                             *)
C16_CoercionTwoOutcomes ==
    Converted =>
        \/ IsInvalidData(result)
        \/ ~IsRaise(result) /\ IsOfType(data_plane_type, result)

(* The inputs the claim names as true: the four strings and the number 1 *)
NamedTrue == TrueStrings \cup {PyInt(1), PyFloat(1)}

(* C17 as stated: a conversion to boolean raises nothing and returns a      *)
(* bool: the bool it was given, True for 'true', 'True', 't', '1' and the   *)
(* number 1, and False for every other value.                               *)
C17_BooleanNeverFails ==
    (Converted /\ data_plane_type = DATA_PLANE_BOOLEAN) =>
        /\ IsBool(result)
        /\ IsBool(value_given) => result = value_given
        /\ (value_given \in TrueStrings \cup {PyInt(1)}) => result = PyBool(TRUE)
        /\ (~IsBool(value_given) /\ value_given \notin NamedTrue) =>
              result = PyBool(FALSE)

(* The parse of a string in the ISO format of a type, or ValueError *)
FromIso(data_plane_type_given, s) ==
    IF data_plane_type_given = DATA_PLANE_DATE THEN DateFromIso(s)
    ELSE IF data_plane_type_given = DATA_PLANE_DATETIME THEN DateTimeFromIso(s)
    ELSE TimeFromIso(s)

IsoCoerced ==
    /\ Converted
    /\ IsStr(value_given)
    /\ data_plane_type \in {DATA_PLANE_DATE, DATA_PLANE_DATETIME, DATA_PLANE_TIME_OF_DAY}

(* C18 as stated: the conversion of a string to date, datetime or time      *)
(* returns a value exactly when the string is in the ISO format of that     *)
(* type, and raises InvalidDataException otherwise.                         *)
C18_IsoExactly ==
    IsoCoerced =>
        IF IsRaise(FromIso(data_plane_type, value_given.v))
        THEN IsInvalidData(result)
        ELSE result = FromIso(data_plane_type, value_given.v)

(* C18, amended: the conversion of a string to date, datetime or time       *)
(* returns the parsed value or raises InvalidDataException, and no default. *)
(* _convert_to_type returns a value exactly when the string is in the ISO   *)
(* format of the type, and so does convert_to_type for a datetime;          *)
(* convert_to_type returns a date exactly when the string is an ISO         *)
(* datetime (a date alone is one), and a time exactly when the string is an *)
(* ISO time or an ISO datetime: it then returns the date or the time of     *)
(* that datetime.                                                           *)
C18_IsoOrDateTimeOfUtils ==
    IsoCoerced =>
        LET s == value_given.v
            own == FromIso(data_plane_type, s)
            whole == DateTimeFromIso(s)
            part == IF data_plane_type = DATA_PLANE_DATE THEN DateOf(whole)
                    ELSE TimeOf(whole)
        IN  /\ IsInvalidData(result) \/ IsOfType(data_plane_type, result)
            /\ (call = "_convert_to_type" \/ data_plane_type = DATA_PLANE_DATETIME) =>
                  (IF IsRaise(own) THEN IsInvalidData(result) ELSE result = own)
            /\ (call = "convert_to_type" /\ data_plane_type = DATA_PLANE_DATE) =>
                  (IF IsRaise(whole) THEN IsInvalidData(result) ELSE result = part)
            /\ (call = "convert_to_type" /\ data_plane_type = DATA_PLANE_TIME_OF_DAY) =>
                  (IF ~IsRaise(own) THEN result = own
                   ELSE IF ~IsRaise(whole) THEN result = part
                   ELSE IsInvalidData(result))

(* convert_to_type made the date of a string that is a datetime, and no date *)
C18_Witness ==
    /\ call = "convert_to_type"
    /\ data_plane_type = DATA_PLANE_DATE
    /\ value_given = StrDateTimeIso
    /\ IsRaise(DateFromIso(value_given.v))
    /\ result = PyDate(2023, 9, 12)

-----------------------------------------------------------------------------
(* Properties of the tables *)

(* The schema is a list of dictionaries with a name and a type, the type    *)
(* being one of the six                                                     *)
ValidSchema(schema_given) ==
    \A i \in 1..Len(schema_given) :
        /\ _valid_column_spec(schema_given[i])
        /\ schema_given[i].type \in SchemaTypes

(* C19 as stated: the construction of a table of a schema that is no list   *)
(* of dictionaries with name and type, the type one of the six, raises      *)
(* InvalidDataException, so that no method is called on a table with such a *)
(* schema.                                                                  *)
C19_SchemaValidated ==
    /\ (table # PyNone /\ ~ValidSchema(columns)) => IsInvalidData(table)
    /\ call \in {"column_names", "all_values"} => ValidSchema(table.schema)

(* The positions of the columns of the schema that bear the name *)
ColumnsNamed(schema_given, name) ==
    { i \in 1..Len(schema_given) :
        /\ IsDict(schema_given[i])
        /\ "name" \in DOMAIN schema_given[i]
        /\ PyEq(schema_given[i].name, name) }

(* C20 as stated: all_values(column_name) returns the values of the column  *)
(* in a strictly ascending list, in which every value of some row is once   *)
(* and no other value is; it raises InvalidDataException for the name None  *)
(* and for a name that is no column of the table.                           *)
C20_AllValuesAscending ==
    call = "all_values" =>
        LET named == ColumnsNamed(table.schema, column_name)
            index == CHOOSE i \in named : \A j \in named : i <= j
        IN  IF column_name = PyNone \/ named = {} THEN IsInvalidData(result)
            ELSE /\ IsList(result)
                 /\ \A k \in 1..(Len(result.v) - 1) : PyLt(result.v[k], result.v[k + 1])
                 /\ \A r \in 1..Len(table.rows) :
                       Cardinality({ k \in 1..Len(result.v) :
                                       result.v[k] = table.rows[r][index] }) = 1
                 /\ \A k \in 1..Len(result.v) :
                       \E r \in 1..Len(table.rows) : table.rows[r][index] = result.v[k]

(* C21 as stated: range_spec(column_name) raises InvalidDataException for   *)
(* a name that is no column of the table; for a column it returns the       *)
(* first element of all_values(column_name) as min_val and the last as      *)
(* max_val, the values being those of the rows that get_rows() returns at   *)
(* the time of the call.                                                    *)
C21_RangeSpecFirstAndLast ==
    call = "range_spec" =>
        IF ColumnsNamed(table.schema, column_name) = {} THEN IsInvalidData(result)
        ELSE \E listed \in ListsOfSet(ColumnValues(table, column_name)) :
                LET values == all_values(table, column_name, listed)
                IN  /\ IsList(values)
                    /\ values.v # <<>>
                    /\ result = [max_val |-> values.v[Len(values.v)],
                                 min_val |-> values.v[1]]

(* The names of the schema, for a schema whose entries all have one *)
NamesOf(schema_given) == [i \in 1..Len(schema_given) |-> schema_given[i].name]

(* The entries of a row in the columns whose names were asked for, in the   *)
(* order of the schema                                                      *)
RECURSIVE Projected(_, _, _)
Projected(row, names, asked) ==
    IF names = <<>> THEN <<>>
    ELSE (IF \E k \in 1..Len(asked) : asked[k] = names[1] THEN <<row[1]>> ELSE <<>>)
         \o Projected(Tail(row), Tail(names), asked)

(* C22 as stated: get_filtered_rows(filter_spec, columns) returns rows that *)
(* hold, in the order of the schema, the entries of the columns whose names *)
(* are in columns, whatever the order of columns and whatever other names   *)
(* it holds; for columns empty or None the rows are returned whole; with no *)
(* filter_spec the rows are all the rows of the table, in their order.      *)
C22_ProjectionInSchemaOrder ==
    call = "get_filtered_rows" =>
        LET asked == IF columns_given = PyNone THEN <<>> ELSE columns_given.v
            names == NamesOf(table.schema)
            whole == IF filter_spec = PyNone THEN table.rows
                     ELSE filter(DataPlaneFilter(filter_spec, table.schema), table.rows)
        IN  /\ filter_spec = PyNone => IsList(result)
            /\ IsList(result) =>
                  /\ Len(result.v) = Len(whole)
                  /\ \A r \in 1..Len(whole) :
                        result.v[r] = IF asked = <<>> THEN whole[r]
                                      ELSE Projected(whole[r], names, asked)

-----------------------------------------------------------------------------
(* Properties of get_all_column_values_in_filter *)

(* The values that a primitive filter holds: the values of its list, its    *)
(* two bounds, or its expression                                            *)
ValuesOfNode(node) ==
    IF node.operator = OpIN_LIST THEN {node.value_list.v[k] : k \in 1..Len(node.value_list.v)}
    ELSE IF node.operator = OpIN_RANGE THEN {node.min_val, node.max_val}
    ELSE {node.expression}

(* The values held for the column by the primitive filters in self, at any  *)
(* depth                                                                    *)
ValuesForColumn(self, name) ==
    UNION { ValuesOfNode(node) :
              node \in { n \in Nodes(self) : /\ n.operator \notin CompoundOperators
                                             /\ n.column_name = name } }

(* C23: get_all_column_values_in_filter(column_name) returns a set; it is   *)
(* empty for a column_name that is None or no string; otherwise its members *)
(* are the values of the primitive filters on that column among the filter  *)
(* and its arguments at any depth (the values of an IN_LIST, the two bounds *)
(* of an IN_RANGE, the expression of a REGEX_MATCH), each once: a compound  *)
(* filter returns the union of what its arguments return, and a primitive   *)
(* filter on another column the empty set.                                  *)
C23_ValuesOfColumnInFilter ==
    call = "get_all_column_values_in_filter" =>
        /\ result.t = "set"
        /\ (column_name = PyNone \/ ~IsStr(column_name)) => result.v = <<>>
        /\ IsStr(column_name) =>
              /\ \A k \in 1..Len(result.v) :
                    result.v[k] \in ValuesForColumn(made_filter, column_name)
              /\ \A value \in ValuesForColumn(made_filter, column_name) :
                    \E k \in 1..Len(result.v) :
                        PyEq(result.v[k], value) \/ (result.v[k] = NaN /\ value = NaN)
              /\ \A j, k \in 1..Len(result.v) :
                    PyEq(result.v[j], result.v[k]) => j = k
        /\ made_filter.operator \in CompoundOperators =>
              \A k \in 1..Len(made_filter.arguments) :
                  \A same_object \in BOOLEAN :
                      LET part == get_all_column_values_in_filter(made_filter.arguments[k],
                                                                  column_name, same_object)
                      IN  \A j \in 1..Len(part.v) :
                              \E i \in 1..Len(result.v) :
                                  PyEq(result.v[i], part.v[j])
                                      \/ (result.v[i] = NaN /\ part.v[j] = NaN)

(* The filter is compound with two arguments that hold values for the       *)
(* column, and the set holds the values of both                             *)
C23_Witness ==
    /\ call = "get_all_column_values_in_filter"
    /\ made_filter.operator = OpNONE
    /\ Len(made_filter.arguments) = 2
    /\ \A k \in 1..2 : ValuesForColumn(made_filter.arguments[k], column_name) # {}
    /\ Len(result.v) >= 2

-----------------------------------------------------------------------------
(* The complement law *)

(* The compound filter of an operator over arguments that were constructed *)
CompoundOf(operator, arguments) == [operator |-> operator, arguments |-> arguments]

(* C30: for the arguments of every compound filter constructed, in every    *)
(* nesting, and every list of rows, filter_index of NONE over the arguments *)
(* and filter_index of ANY over the same arguments have no index in common  *)
(* and together hold every index from 0 to len(rows) - 1; what filter_index *)
(* returns holds no other index; and ALL, ANY and NONE over the arguments   *)
(* return the same set in whatever order the arguments are put.             *)
C30_ComplementLaw ==
    call = "filter_index" =>
        /\ result \subseteq RowIndices
        /\ \A node \in Nodes(made_filter) :
              /\ filter_index(node, rows) \subseteq RowIndices
              /\ node.operator \in CompoundOperators =>
                    LET none == filter_index(CompoundOf(OpNONE, node.arguments), rows)
                        any == filter_index(CompoundOf(OpANY, node.arguments), rows)
                    IN  /\ none \cap any = {}
                        /\ none \cup any = RowIndices
                        /\ node = made_filter /\ node.operator = OpNONE => result = none
                        /\ node = made_filter /\ node.operator = OpANY => result = any
                        /\ \A operator \in CompoundOperators :
                              \A arguments \in Orderings(node.arguments) :
                                  filter_index(CompoundOf(operator, arguments), rows)
                                      = filter_index(CompoundOf(operator, node.arguments), rows)

(* A NONE of a primitive filter and a compound one, which returns some of   *)
(* the two rows and not the other                                           *)
C30_Witness ==
    /\ call = "filter_index"
    /\ made_filter.operator = OpNONE
    /\ Len(made_filter.arguments) = 2
    /\ made_filter.arguments[1].operator \notin CompoundOperators
    /\ made_filter.arguments[2].operator \in CompoundOperators
    /\ Len(rows) = 2
    /\ Cardinality(result) = 1
    /\ filter_index(CompoundOf(OpANY, made_filter.arguments), rows) = RowIndices \ result

(* C29 as stated: numeric_spec(column_name) of a number column without NaN  *)
(* returns the smallest and the largest of the values of the column as      *)
(* min_val and max_val, and the smallest positive difference of two         *)
(* neighbours of their ascending list as increment; it returns a result,    *)
(* and no error, for a column with one distinct value.  It raises           *)
(* InvalidDataException for a name that is no column, a column that is no   *)
(* number and a column with a NaN.  Stated of the tables with a schema as   *)
(* the class asks and at least one row.                                     *)
C29_NumericSpec ==
    (call = "numeric_spec" /\ ValidSchema(table.schema) /\ table.rows # <<>>) =>
        LET named == ColumnsNamed(table.schema, column_name)
            index == CHOOSE i \in named : \A j \in named : i <= j
            held == { table.rows[r][index] : r \in 1..Len(table.rows) }
            gaps == { b.v - a.v : a, b \in held } \cap { d \in Int : d > 0 }
        IN  IF named = {} THEN IsInvalidData(result)
            ELSE IF table.schema[index].type # DATA_PLANE_NUMBER THEN IsInvalidData(result)
            ELSE IF NaN \in held THEN IsInvalidData(result)
            ELSE /\ ~IsRaise(result)
                 /\ result.min_val \in held
                 /\ result.max_val \in held
                 /\ \A a \in held : result.min_val.v <= a.v /\ a.v <= result.max_val.v
                 /\ gaps # {} => (result.increment.v \in gaps
                                    /\ \A d \in gaps : result.increment.v <= d)

-----------------------------------------------------------------------------
(* The server of src/data_plane_server: tables are added to its             *)
(* TableServer, and requests for filtered rows come with a body.            *)

(* The bodies: a text that is no JSON, the JSON of a number, and the JSON   *)
(* of dictionaries with or without a table, a filter and columns            *)
BodyFilters ==
    { Omitted, PyNone, PyInt(1),
      [operator |-> OpIN_LIST, column |-> ColName, values |-> PyList(<<StrFoo>>)],
      [operator |-> OpIN_LIST, column |-> StrFoo, values |-> PyList(<<PyInt(1)>>)],
      [operator |-> OpIN_RANGE, column |-> ColAge, max_val |-> StrFoo, min_val |-> StrA] }

BodyColumns == { Omitted, PyNone, StrFoo, PyList(<<ColAge>>), PyList(<<StrFoo>>) }

Key(name, value) == IF value = Omitted THEN <<>> ELSE (name :> value)

Bodies ==
    { StrFoo, JsonText(PyInt(1)) } \cup
    { JsonText(Key("table", table_name) @@ Key("filter", spec) @@ Key("columns", names)) :
        table_name \in ServerTableNames \cup {StrFoo, Omitted},
        spec \in BodyFilters, names \in BodyColumns }

InitPost ==
    /\ table_servers = <<>>
    /\ request = PyNone
    /\ call = "none"
    /\ result = PyNone
    /\ columns = PyNone
    /\ filter_spec = PyNone
    /\ rows = <<>>
    /\ made_filter = PyNone
    /\ copy = PyNone
    /\ data_plane_type = PyNone
    /\ value_given = PyNone
    /\ table = PyNone
    /\ column_name = PyNone
    /\ columns_given = PyNone
    /\ NoRemote

(* table_server.add_data_plane_table({"name": table_name, "table": table})  *)
AddToTableServer ==
    \E table_name \in ServerTableNames, table_given \in { unprotected, protected } :
        /\ call' = "TableServer.add_data_plane_table"
        /\ request' = [name |-> table_name, table |-> table_given]
        /\ result' = PyNone
        /\ table_servers' = TableServer_add_data_plane_table(table_servers, request')
        /\ UNCHANGED <<columns, filter_spec, rows, made_filter, copy>>
        /\ UNCHANGED <<coerce_vars, table_vars, remote_vars>>

(* POST /get_filtered_rows *)
GetFilteredRowsPost ==
    \E body \in Bodies, authorized \in BOOLEAN :
        /\ call' = "post_get_filtered_rows"
        /\ request' = [json |-> body, authorized |-> authorized]
        /\ result' = get_filtered_rows_post(table_servers, request', authorized)
        /\ UNCHANGED table_servers
        /\ UNCHANGED <<columns, filter_spec, rows, made_filter, copy>>
        /\ UNCHANGED <<coerce_vars, table_vars, remote_vars>>

NextPost ==
    \/ AddToTableServer
    \/ GetFilteredRowsPost

SpecPost == InitPost /\ [][NextPost]_vars


-----------------------------------------------------------------------------
(* The remote table.  Its class is not in the repository as given; it is    *)
(* modelled from the specification of the remote table client: a table      *)
(* with a locally declared schema and a connected flag, which asks its peer *)
(* for the tables it lists before the first operation, and sends the        *)
(* requests for data after that.                                            *)

MaxSent == 3

RemoteTableName == NameUnprotected

(* What comes back from the peer: nothing, or a response with a status and  *)
(* a body                                                                   *)
Unreachable == [t |-> "unreachable"]
HttpResponse(status, body) == [status |-> status, body |-> body]

(* Variant: the report names the first differing field only *)
SchemaMismatches_first(local, remote) ==
    IF Len(local) # Len(remote) THEN { [field |-> "columns"] }
    ELSE LET differing == { i \in 1..Len(local) : local[i] # remote[i] }
             i == CHOOSE j \in differing : \A k \in differing : j <= k
         IN  IF differing = {} THEN {}
             ELSE IF local[i].name # remote[i].name
                  THEN { [column |-> i, field |-> "name"] }
             ELSE { [column |-> i, field |-> "type"] }

(* The report of the fields in which the schema that the peer lists differs *)
(* from the local one: the number of columns, and the name and the type of  *)
(* every column that both have                                              *)
SchemaMismatches(local, remote) ==
    LET shared == 1..(IF Len(local) < Len(remote) THEN Len(local) ELSE Len(remote))
    IN  (IF Len(local) # Len(remote) THEN { [field |-> "columns"] } ELSE {})
        \cup { [column |-> i, field |-> "name"] :
                  i \in { j \in shared : local[j].name # remote[j].name } }
        \cup { [column |-> i, field |-> "type"] :
                  i \in { j \in shared : local[j].type # remote[j].type } }

(* The discovery: None when the peer lists the table with the local schema, *)
(* else the InvalidDataException, with the report of a mismatch             *)
discover(local, name, answer) ==
    IF answer = Unreachable THEN InvalidData("the peer is unreachable")
    ELSE IF answer.status # 200 THEN InvalidData("the peer returned no success")
    ELSE IF answer.body.t # "json" THEN InvalidData("the peer returned no JSON")
    ELSE IF name \notin DOMAIN loads(answer.body)
         THEN InvalidData("the peer does not list the table")
    ELSE IF SchemaMismatches(local, loads(answer.body)[name]) # {}
         THEN [raised |-> "InvalidDataException",
               fields |-> SchemaMismatches(local, loads(answer.body)[name])]
    ELSE PyNone

(* The answer to a request for data: the decoded JSON, or the               *)
(* InvalidDataException that wraps a failure of the transport or a status   *)
(* that is no success                                                       *)
decode(answer) ==
    IF answer = Unreachable THEN InvalidData("the peer is unreachable")
    ELSE IF answer.status # 200 THEN InvalidData("the peer returned no success")
    ELSE IF answer.body.t # "json" THEN InvalidData("the peer returned no JSON")
    ELSE loads(answer.body)

(* The schemas that a peer lists for the table: the local one, one with a   *)
(* renamed column, one with another type, one with both, one with a column  *)
(* less                                                                     *)
PeerSchemas ==
    { table_test_schema,
      << [name |-> ColName, type |-> DATA_PLANE_STRING],
         [name |-> StrFoo, type |-> DATA_PLANE_NUMBER] >>,
      << [name |-> ColName, type |-> DATA_PLANE_NUMBER],
         [name |-> ColAge, type |-> DATA_PLANE_NUMBER] >>,
      << [name |-> StrA, type |-> DATA_PLANE_STRING],
         [name |-> StrFoo, type |-> DATA_PLANE_STRING] >>,
      << [name |-> ColName, type |-> DATA_PLANE_STRING] >> }

DiscoveryAnswers ==
    { Unreachable, HttpResponse(500, StrFoo), HttpResponse(200, StrFoo),
      HttpResponse(200, JsonText(<<>>)),
      HttpResponse(200, JsonText(NameProtected :> table_test_schema)) }
    \cup { HttpResponse(200, JsonText(RemoteTableName :> peer_schema)) :
              peer_schema \in PeerSchemas }

DataAnswers ==
    { Unreachable, HttpResponse(500, StrFoo),
      HttpResponse(200, JsonText(PyList(<<StrFoo>>))) }

DataRequests == { "all_values", "range_spec", "get_filtered_rows" }

InitRemote ==
    /\ connected = FALSE
    /\ sent = <<>>
    /\ response = PyNone
    /\ columns = table_test_schema
    /\ call = "none"
    /\ result = PyNone
    /\ filter_spec = PyNone
    /\ rows = <<>>
    /\ made_filter = PyNone
    /\ copy = PyNone
    /\ data_plane_type = PyNone
    /\ value_given = PyNone
    /\ table = PyNone
    /\ column_name = PyNone
    /\ columns_given = PyNone
    /\ NoServer

(* connect(): the peer is asked for its tables *)
Connect ==
    /\ ~connected
    /\ Len(sent) < MaxSent
    /\ \E answer \in DiscoveryAnswers :
          /\ sent' = Append(sent, "get_tables")
          /\ response' = answer
          /\ result' = discover(columns, RemoteTableName, answer)
          /\ connected' = (discover(columns, RemoteTableName, answer) = PyNone)
    /\ call' = "connect"
    /\ UNCHANGED <<columns, filter_spec, rows, made_filter, copy>>
    /\ UNCHANGED <<coerce_vars, table_vars, server_vars>>

(* all_values, range_spec and get_filtered_rows of a table that is          *)
(* connected: the request is sent                                           *)
RemoteRequest ==
    /\ connected
    /\ Len(sent) < MaxSent
    /\ \E operation \in DataRequests, answer \in DataAnswers :
          /\ call' = operation
          /\ sent' = Append(sent, operation)
          /\ result' = decode(answer)
    /\ UNCHANGED <<connected, response>>
    /\ UNCHANGED <<columns, filter_spec, rows, made_filter, copy>>
    /\ UNCHANGED <<coerce_vars, table_vars, server_vars>>

(* all_values, range_spec and get_filtered_rows as the first operation of a *)
(* table that is not connected: the peer is asked for its tables first, and *)
(* the request is sent only if that succeeds                                *)
FirstRemoteRequest ==
    /\ ~connected
    /\ Len(sent) + 1 < MaxSent
    /\ \E operation \in DataRequests, answer \in DiscoveryAnswers, data \in DataAnswers :
          LET discovered == discover(columns, RemoteTableName, answer)
          IN  /\ call' = operation
              /\ response' = answer
              /\ connected' = (discovered = PyNone)
              /\ sent' = IF discovered = PyNone
                         THEN sent \o << "get_tables", operation >>
                         ELSE Append(sent, "get_tables")
              /\ result' = IF discovered = PyNone THEN decode(data) ELSE discovered
    /\ UNCHANGED <<columns, filter_spec, rows, made_filter, copy>>
    /\ UNCHANGED <<coerce_vars, table_vars, server_vars>>

NextRemote ==
    \/ Connect
    \/ RemoteRequest
    \/ FirstRemoteRequest

SpecRemote == InitRemote /\ [][NextRemote]_vars
-----------------------------------------------------------------------------
(* Properties of the server *)

(* The names that the registry has an entry for *)
Registered(servers) == { servers[i].name : i \in 1..Len(servers) }

Denied(servers, asked) ==
    { i \in 1..Len(servers) :
        /\ Len(servers[i].headers.v) > 0
        /\ \E k \in 1..Len(servers[i].headers.v) :
              LET required == servers[i].headers.v[k]
              IN  \/ required.variable \notin DOMAIN asked.headers
                  \/ asked.headers[required.variable] # required.value }

DataRoutes == { "get_filtered_rows", "get_all_values", "get_numeric_spec", "get_table_spec" }

(* The table that the request names *)
Named(asked) == DictGet(asked.headers, HeaderTableName)

(* What /get_tables and the data routes do for every request but one for a  *)
(* table that the request is not authorized for: /get_tables lists no       *)
(* table that the request is not authorized for; a data request that names  *)
(* a table without an entry is aborted with 400; a data request is answered *)
(* with data only if it is authorized for the table it names, and a request *)
(* for the values of a column that names no table gets the values of        *)
(* tables that it is authorized for only.                                   *)
GateBesidesDenied ==
    /\ call = "get_tables" =>
          \A i \in Denied(table_servers, request) :
             \A k \in 1..Len(result.json) : result.json[k].name # table_servers[i].name
    /\ (call \in DataRoutes /\ Named(request) # PyNone
            /\ Named(request) \notin Registered(table_servers)) =>
          result = HttpAbort(400)
    /\ (call \in DataRoutes /\ Named(request) # PyNone /\ "json" \in DOMAIN result) =>
          \E i \in 1..Len(table_servers) :
             /\ table_servers[i].name = Named(request)
             /\ i \notin Denied(table_servers, request)
    /\ (call = "get_all_values" /\ Named(request) = PyNone /\ "json" \in DOMAIN result) =>
          \A k \in 1..Len(result.json.v) :
             \E i \in 1..Len(table_servers) :
                /\ i \notin Denied(table_servers, request)
                /\ \E r \in 1..Len(table_servers[i].table.rows) :
                      \E c \in 1..Len(table_servers[i].table.rows[r]) :
                         table_servers[i].table.rows[r][c] = result.json.v[k]

(* The request names a table that it is not authorized for *)
NamesDenied ==
    \E i \in Denied(table_servers, request) : table_servers[i].name = Named(request)

(* C25 as stated: a table registered with required headers is listed by     *)
(* /get_tables and served by the data routes only if the request brings     *)
(* every required variable with the required value; otherwise it is left    *)
(* out of /get_tables and every data request that names it is aborted with  *)
(* 403; a data request that names a table without an entry is aborted with  *)
(* 400.                                                                     *)
C25_AuthorizationGate_AsStated ==
    call \in DataRoutes \cup {"get_tables"} =>
        /\ GateBesidesDenied
        /\ (call \in DataRoutes /\ NamesDenied) => result = HttpAbort(403)

(* C25 amended: as stated, but a request to /get_filtered_rows whose        *)
(* Filter-Spec header is no JSON is aborted with 400 before the table is    *)
(* looked up, also when it names a table that it is not authorized for.     *)
C25_AuthorizationGate ==
    call \in DataRoutes \cup {"get_tables"} =>
        /\ GateBesidesDenied
        /\ (call \in DataRoutes /\ NamesDenied) =>
              IF /\ call = "get_filtered_rows"
                 /\ HeaderFilterSpec \in DOMAIN request.headers
                 /\ request.headers[HeaderFilterSpec].t # "json"
              THEN result = HttpAbort(400)
              ELSE result = HttpAbort(403)

(* A request for the filtered rows of the protected table came with a       *)
(* filter and another value than the required one, and was aborted with 403 *)
C25_Witness ==
    /\ call = "get_filtered_rows"
    /\ Named(request) = NameProtected
    /\ NamesDenied
    /\ StrTest \in DOMAIN request.headers
    /\ HeaderFilterSpec \in DOMAIN request.headers
    /\ result = HttpAbort(403)

(* The body of the request, and what it asks for *)
BodyOf(asked) == loads(asked.json)
BodyFilter(asked) == IF "filter" \in DOMAIN BodyOf(asked) THEN BodyOf(asked).filter ELSE PyNone
BodyColumnsAsked(asked) ==
    IF "columns" \in DOMAIN BodyOf(asked) /\ BodyOf(asked).columns # PyNone
    THEN BodyOf(asked).columns ELSE PyList(<<>>)

(* The request names a table that the server has, is authorized for it, and *)
(* asks for columns of the table, if for any                                *)
Admitted(asked) ==
    /\ IsDict(BodyOf(asked))
    /\ "table" \in DOMAIN BodyOf(asked)
    /\ BodyOf(asked).table \in Registered(table_servers)
    /\ asked.authorized
    /\ IsList(BodyColumnsAsked(asked))
    /\ \A k \in 1..Len(BodyColumnsAsked(asked).v) :
          BodyColumnsAsked(asked).v[k] \in {ColName, ColAge}

(* C27 as stated, of the route of src/data_plane_server: the request is     *)
(* aborted with 400 if its body is no JSON, if it names no table, and, when *)
(* it is admitted to a table, if check_valid_spec raises                    *)
(* InvalidDataException for its filter or the table's get_filtered_rows     *)
(* does.                                                                    *)
C27_BadRequestIs400 ==
    call = "post_get_filtered_rows" =>
        /\ IsRaise(BodyOf(request)) => result = HttpAbort(400)
        /\ (~IsRaise(BodyOf(request)) /\ (~IsDict(BodyOf(request))
                                         \/ "table" \notin DOMAIN BodyOf(request))) =>
              result = HttpAbort(400)
        /\ (Admitted(request) /\ BodyFilter(request) # PyNone
                /\ IsInvalidData(check_valid_spec(BodyFilter(request)))) =>
              result = HttpAbort(400)
        /\ (Admitted(request)
                /\ IsInvalidData(get_filtered_rows(
                       ServerOf(table_servers, BodyOf(request).table).table,
                       BodyFilter(request), BodyColumnsAsked(request)))) =>
              result = HttpAbort(400)

-----------------------------------------------------------------------------
(* Properties of requests in any order *)

FilterCalls == { "filter", "filter_index", "to_filter_spec", "get_all_column_values_in_filter" }
TableCalls == { "all_values", "range_spec", "get_filtered_rows" }

(* C28: a call of filter, filter_index, to_filter_spec or                   *)
(* get_all_column_values_in_filter, and a call of all_values, range_spec or *)
(* get_filtered_rows of a table, leaves the fields of the filter, the       *)
(* schema, the rows given and the table as they were; the result of filter  *)
(* and of filter_index is that of the filter as constructed on the rows as  *)
(* given, so that a call made again right away returns the same.            *)
C28_EvaluationReadOnly ==
    [][/\ call' \in FilterCalls \cup TableCalls =>
            /\ made_filter' = made_filter
            /\ filter_spec' = filter_spec
            /\ columns' = columns
            /\ rows' = rows
            /\ table' = table
       /\ call' = "filter" => result' = filter(made_filter', rows')
       /\ call' = "filter_index" => result' = filter_index(made_filter', rows')
       /\ (call' = call /\ call \in {"filter", "filter_index", "to_filter_spec"}) =>
            result' = result]_vars

(* The filter selected one of two rows, between calls to the table made of  *)
(* the same rows                                                            *)
C28_Witness ==
    /\ call = "filter"
    /\ Constructed(table)
    /\ Len(rows) = 2
    /\ Len(result) = 1
    /\ table.rows = rows

-----------------------------------------------------------------------------
(* Properties of the remote table *)

(* The peer answered the discovery with a list that has the table *)
Listed(answer) ==
    /\ answer # PyNone
    /\ answer # Unreachable
    /\ answer.status = 200
    /\ answer.body.t = "json"
    /\ RemoteTableName \in DOMAIN answer.body.v

ListedSchema(answer) == answer.body.v[RemoteTableName]

(* The schema has as many columns as the local one, each of the same name   *)
(* and type                                                                 *)
EqualsLocal(remote) ==
    /\ Len(remote) = Len(columns)
    /\ \A i \in 1..Len(columns) :
          remote[i].name = columns[i].name /\ remote[i].type = columns[i].type

(* The report names the field of the column *)
Names(report, i, field) == \E entry \in report :
    "column" \in DOMAIN entry /\ entry.column = i /\ entry.field = field

(* C24: the connected flag is false at first, and becomes true only by a    *)
(* discovery that the peer answered with a list that has the table, with a  *)
(* schema equal to the local one; a discovery that finds the table with     *)
(* another schema raises InvalidDataException, whose report names every     *)
(* field that differs, and leaves the flag false; a request for data is     *)
(* sent only with the flag true, and the flag false means none was sent.    *)
C24_RemoteConnection ==
    /\ ~connected
    /\ [][/\ (~connected /\ connected') =>
                /\ Len(sent') > Len(sent)
                /\ sent'[Len(sent) + 1] = "get_tables"
                /\ Listed(response')
                /\ EqualsLocal(ListedSchema(response'))
          /\ (Len(sent') > Len(sent) /\ sent'[Len(sent) + 1] = "get_tables"
                /\ Listed(response') /\ ~EqualsLocal(ListedSchema(response'))) =>
                /\ IsInvalidData(result')
                /\ ~connected'
                /\ "fields" \in DOMAIN result'
                /\ Len(ListedSchema(response')) # Len(columns) =>
                      [field |-> "columns"] \in result'.fields
                /\ \A i \in 1..Len(columns) : \A field \in {"name", "type"} :
                      (i <= Len(ListedSchema(response'))
                          /\ ListedSchema(response')[i][field] # columns[i][field])
                        => Names(result'.fields, i, field)
          /\ \A k \in (Len(sent) + 1)..Len(sent') :
                sent'[k] \in DataRequests => connected'
          /\ ~connected' => \A k \in 1..Len(sent') : sent'[k] \notin DataRequests
         ]_vars

(* The peer listed the table with a renamed column and with another type of *)
(* another column: the discovery failed, naming both, and nothing but the   *)
(* discovery was sent                                                       *)
C24_Witness ==
    /\ ~connected
    /\ Listed(response)
    /\ ListedSchema(response)[1].name = StrA
    /\ ListedSchema(response)[2].type = DATA_PLANE_STRING
    /\ IsInvalidData(result)
    /\ Names(result.fields, 1, "name")
    /\ Names(result.fields, 2, "type")
    /\ sent = << "get_tables" >>

=============================================================================
